---- MODULE Spec2Model ----
(***************************************************************************)
(* A model of databroker's BrokerES layer (src/databroker/broker.py):      *)
(*   - search():            the key resolver behind db[key]                *)
(*   - _fill_events_coro(): the row-oriented fill coroutine, fill_events() *)
(*   - get_documents() / get_events(): the lazy document stream and the    *)
(*     handler-registry scope it holds while it is suspended               *)
(*   - Results.__iter__():   the re-iterable view db(...) returns          *)
(*   - get_table() / fill_table(): the columnar form of the fill           *)
(*   - filters, add_filter(), clear_filters(), alias(), dynamic_alias(),   *)
(*     __getattr__() and __call__(): the facade's filter and alias state   *)
(*   - export(): the copy of runs and their assets into another Broker     *)
(* Each part has its own specification over its own variables; the other   *)
(* variables stay at their initial values.                                 *)
(***************************************************************************)
EXTENDS Integers, Sequences, FiniteSets, TLC

VARIABLES
    \* ---- metadata store and key resolver
    runs,        \* RunStart documents in insertion order (oldest first)
    open,        \* TRUE when the most recent run has no RunStop yet
    key,         \* the key of the last db[key] / search(key, db)
    result,      \* what that search did: outcome, pairs returned, store calls
    \* ---- fill coroutine (fill_events / _fill_events_coro)
    descriptors, \* the descriptors argument: sequence of descriptors
    fields,      \* the fields selector: TRUE, FALSE or a set of keys
    inplace,     \* the inplace argument
    cpc,         \* coroutine position
    heap,        \* event objects: object id -> event
    pushed,      \* per event pushed: object id, pre-call snapshot, outcome
    retrieved,   \* every retrieve call made: <<input object id, key, argument>>
    reads,       \* every data[dk] lookup made: <<input object id, key>>
    \* ---- document stream (get_documents / get_events)
    call,        \* the arguments of the current call
    gpc,         \* generator position
    consumer,    \* what the caller is doing with the generator
    hIdx,        \* index of the header being streamed
    esIdx,       \* index of the event source being drained
    sourced,     \* per header, per source: the documents the source yielded
    emitted,     \* documents yielded by get_documents, in order
    yielded,     \* documents yielded to the caller, in order
    filledIds,   \* ids of the documents sent through the fill coroutine
    registry,    \* handler registry: stack of active overrides
    trace,       \* order of the side effects of the call
    gerr,        \* the exception the call ended with, or "none"
    \* ---- results view (Results)
    source,      \* what the one-shot (start, stop) iterator has yet to give
    teeBuf,      \* what itertools.tee has taken from it, kept for every fork
    dataKey,     \* the data_key the view filters by, or None
    iters,       \* the iterations of the view started so far
    \* ---- table (get_table / fill_table)
    tcall,       \* the arguments of the get_table call
    tpc,         \* position of the call
    tpos,        \* <<header, event source>> whose table is asked next
    dfs,         \* the tables collected so far
    tRetrieved,  \* every retrieve call made: <<column, argument>>
    tReg,        \* handler registry: stack of active overrides
    \* ---- facade (filters and aliases)
    filters,     \* self._filters: the filter queries, each the set of its keys
    aliases,     \* self.aliases: name -> query or thunk
    last,        \* the last call on the facade and what it did
    \* ---- export
    xcall,       \* the headers argument of the export call
    xpos,        \* position of the call: header, phase, descriptor
    events,      \* what the get_events generator of the header has yet to give
    dest,        \* every insert into the destination and every copy, in order
    \* ---- interleaved document streams
    streams      \* per stream: its generator's position and what it has seen

searchVars == <<runs, open, key, result>>
fillVars   == <<descriptors, fields, inplace, cpc, heap, pushed, retrieved, reads>>
docVars    == <<call, gpc, consumer, hIdx, esIdx, sourced, emitted, yielded,
                filledIds, registry, trace, gerr>>
viewVars   == <<source, teeBuf, dataKey, iters>>
tableVars  == <<tcall, tpc, tpos, dfs, tRetrieved, tReg>>
facadeVars == <<filters, aliases, last>>
exportVars == <<xcall, xpos, events, dest>>
moreVars   == <<facadeVars, exportVars, streams>>
vars       == <<searchVars, fillVars, docVars, viewVars, tableVars, moreVars>>

\* ------------------------------------------------------------------ bounds
MaxRuns   == 4      \* runs inserted into the metadata store
MaxScanId == 1      \* scan_id values are 0..MaxScanId
MaxStored == 2      \* runs in the store while string and collection keys are tried
MaxElems  == 2      \* elements of a tuple, list or set key
MaxDescs  == 2      \* descriptors handed to one fill coroutine
MaxEvents == 2      \* events pushed through one fill coroutine
MaxDocs   == 2      \* documents the event sources yield during one call

\* ------------------------------------------------------------- primitives
\* Python's None and an optional value
None == <<>>
Some(x) == <<x>>
IsNone(o) == o = <<>>
Val(o) == o[1]

Min(a, b) == IF a < b THEN a ELSE b
Max(a, b) == IF a > b THEN a ELSE b

RECURSIVE Flatten(_)
Flatten(ss) == IF ss = <<>> THEN <<>> ELSE Head(ss) \o Flatten(Tail(ss))

\* ============================================================ key resolver

ScanIds == 0 .. MaxScanId

\* `if len(key) == 36`: the length of a complete uid
UidLen == 36

\* uids are strings, modelled as sequences of characters
Pad(n) == [i \in 1 .. n |-> "x"]
Digits == <<"1", "2", "3", "4", "5", "6", "7", "8", "9">>
\* the uid of the i-th run inserted when the writer numbers its runs
IndexUid(i) == <<Digits[i]>> \o Pad(UidLen - 1)
\* uids a writer may give: two complete uids, and two longer ones that hold
\* the first as a prefix and in their interior
UidA == <<"a">> \o Pad(UidLen - 1)
UidB == <<"b">> \o Pad(UidLen - 1)
UidC == UidA \o <<"y">>
UidD == <<"y">> \o UidA
UidMenu == {UidA, UidB, UidC, UidD}

\* str.startswith
StartsWith(u, p) == Len(p) <= Len(u) /\ SubSeq(u, 1, Len(p)) = p

\* H most recent first
Reversed(H) == [i \in 1 .. Len(H) |-> H[Len(H) + 1 - i]]

\* hs.find_run_starts(uid=key): the runs with exactly that uid
FindRunStartsUid(H, u) == SelectSeq(Reversed(H), LAMBDA r : r.uid = u)

\* hs.find_run_starts(uid={'$regex': key + '.*'}): the partial-uid lookup,
\* the runs whose uid starts with key
FindRunStartsUidRegex(H, u) == SelectSeq(Reversed(H), LAMBDA r : StartsWith(r.uid, u))

\* hs.find_last(n): the n most recent RunStarts, most recent first
FindLast(H, n) ==
    [i \in 1 .. Min(n, Len(H)) |-> H[Len(H) + 1 - i]]

\* hs.find_run_starts(scan_id=k): matching RunStarts, most recent first
FindRunStartsScanId(H, k) ==
    LET rev == [i \in 1 .. Len(H) |-> H[Len(H) + 1 - i]]
    IN  SelectSeq(rev, LAMBDA r : r.scan_id = k)

\* safe_get_stop(hs, start): the run's RunStop, or None while the run is open
SafeGetStop(H, isOpen, start) ==
    IF isOpen /\ H # <<>> /\ start.uid = H[Len(H)].uid
    THEN None
    ELSE Some([run_start |-> start.uid])

Pair(H, isOpen, start) == [start |-> start, stop |-> SafeGetStop(H, isOpen, start)]

\* a variant of PySliceFrom that takes seq[:start] instead of seq[start:]
PySliceUpTo(L, start, step) ==
    IF IsNone(start) THEN L
    ELSE SubSeq(L, 1, Min(Val(start), Len(L)))

\* a variant of PySliceFrom that drops the step: seq[start:]
PySliceFromStepOne(L, start, step) ==
    LET lo == IF IsNone(start) THEN 0 ELSE Min(Val(start), Len(L))
    IN  [i \in 1 .. (Len(L) - lo) |-> L[lo + i]]

\* Python's seq[start::step] for a list L (0-based), start an optional int,
\* step an optional nonzero int; the result as a sequence
PySliceFrom(L, start, step) ==
    LET n  == Len(L)
        st == IF IsNone(step) THEN 1 ELSE Val(step)
        lo == IF st > 0
              THEN (IF IsNone(start) THEN 0
                    ELSE IF Val(start) < 0 THEN Max(Val(start) + n, 0)
                    ELSE Min(Val(start), n))
              ELSE (IF IsNone(start) THEN n - 1
                    ELSE IF Val(start) < 0 THEN Max(Val(start) + n, -1)
                    ELSE Min(Val(start), n - 1))
        cnt == IF st > 0
               THEN (IF lo >= n THEN 0 ELSE ((n - 1 - lo) \div st) + 1)
               ELSE (IF lo < 0 THEN 0 ELSE (lo \div (-st)) + 1)
    IN  [i \in 1 .. cnt |-> L[lo + (i - 1) * st + 1]]

\* a variant of SearchSlice that lacks the check of key.stop
SearchSliceNoStopCheck(k, H, isOpen) ==
    IF ~IsNone(k.start) /\ Val(k.start) > -1
    THEN [kind |-> "InvalidRange", pairs |-> <<>>, calls |-> <<>>]
    ELSE IF IsNone(k.start)
    THEN [kind |-> "InvalidRange", pairs |-> <<>>, calls |-> <<>>]
    ELSE LET stop  == IF ~IsNone(k.stop) THEN Some(-Val(k.stop)) ELSE None
             start == -Val(k.start)
             calls == << <<"find_last", start>> >>
         IN  IF ~IsNone(k.step) /\ Val(k.step) = 0
             THEN [kind |-> "ValueError", pairs |-> <<>>, calls |-> calls]
             ELSE LET res == PySliceFrom(FindLast(H, start), stop, k.step)
                  IN  [kind |-> "ok",
                       pairs |-> [i \in 1 .. Len(res) |-> Pair(H, isOpen, res[i])],
                       calls |-> calls]

\* search.register(slice)
SearchSlice(k, H, isOpen) ==
    IF ~IsNone(k.start) /\ Val(k.start) > -1
    THEN [kind |-> "InvalidRange", pairs |-> <<>>, calls |-> <<>>]
    ELSE IF ~IsNone(k.stop) /\ Val(k.stop) > 0
    THEN [kind |-> "InvalidRange", pairs |-> <<>>, calls |-> <<>>]
    ELSE IF IsNone(k.start)
    THEN [kind |-> "InvalidRange", pairs |-> <<>>, calls |-> <<>>]
    ELSE LET stop  == IF ~IsNone(k.stop) THEN Some(-Val(k.stop)) ELSE None
             start == -Val(k.start)
             calls == << <<"find_last", start>> >>
         IN  IF ~IsNone(k.step) /\ Val(k.step) = 0
             \* list[stop::0] raises ValueError: slice step cannot be zero
             THEN [kind |-> "ValueError", pairs |-> <<>>, calls |-> calls]
             ELSE LET res == PySliceFrom(FindLast(H, start), stop, k.step)
                  IN  [kind |-> "ok",
                       pairs |-> [i \in 1 .. Len(res) |-> Pair(H, isOpen, res[i])],
                       calls |-> calls]

\* a variant of SearchInt that takes the last match instead of the first
SearchIntOldest(n, H, isOpen) ==
    IF n > -1
    THEN LET gen   == FindRunStartsScanId(H, n)
             calls == << <<"find_run_starts", n>> >>
         IN  IF gen = <<>>
             THEN [kind |-> "NotFoundError", pairs |-> <<>>, calls |-> calls]
             ELSE [kind |-> "ok", pairs |-> <<Pair(H, isOpen, gen[Len(gen)])>>,
                   calls |-> calls]
    ELSE LET gen   == FindLast(H, -n)
             calls == << <<"find_last", -n>> >>
         IN  IF Len(gen) < -n
             THEN [kind |-> "IndexOutOfRange", pairs |-> <<>>, calls |-> calls]
             ELSE [kind |-> "ok", pairs |-> <<Pair(H, isOpen, gen[-n])>>,
                   calls |-> calls]

\* a variant of SearchInt that returns the last run find_last gave instead
\* of raising when it gave fewer than -n
SearchIntNoRaise(n, H, isOpen) ==
    IF n > -1
    THEN LET gen   == FindRunStartsScanId(H, n)
             calls == << <<"find_run_starts", n>> >>
         IN  IF gen = <<>>
             THEN [kind |-> "NotFoundError", pairs |-> <<>>, calls |-> calls]
             ELSE [kind |-> "ok", pairs |-> <<Pair(H, isOpen, gen[1])>>,
                   calls |-> calls]
    ELSE LET gen   == FindLast(H, -n)
             calls == << <<"find_last", -n>> >>
         IN  IF gen = <<>>
             THEN [kind |-> "IndexOutOfRange", pairs |-> <<>>, calls |-> calls]
             ELSE [kind |-> "ok", pairs |-> <<Pair(H, isOpen, gen[Len(gen)])>>,
                   calls |-> calls]

\* a variant of SearchInt whose loop over find_last stops after one step
SearchIntFirstOfLast(n, H, isOpen) ==
    IF n > -1
    THEN LET gen   == FindRunStartsScanId(H, n)
             calls == << <<"find_run_starts", n>> >>
         IN  IF gen = <<>>
             THEN [kind |-> "NotFoundError", pairs |-> <<>>, calls |-> calls]
             ELSE [kind |-> "ok", pairs |-> <<Pair(H, isOpen, gen[1])>>,
                   calls |-> calls]
    ELSE LET gen   == FindLast(H, -n)
             calls == << <<"find_last", -n>> >>
         IN  IF Len(gen) < -n
             THEN [kind |-> "IndexOutOfRange", pairs |-> <<>>, calls |-> calls]
             ELSE [kind |-> "ok", pairs |-> <<Pair(H, isOpen, gen[1])>>,
                   calls |-> calls]

\* search.register(numbers.Integral)
SearchInt(n, H, isOpen) ==
    IF n > -1
    THEN LET gen   == FindRunStartsScanId(H, n)
             calls == << <<"find_run_starts", n>> >>
         IN  IF gen = <<>>
             THEN [kind |-> "NotFoundError", pairs |-> <<>>, calls |-> calls]
             ELSE [kind |-> "ok", pairs |-> <<Pair(H, isOpen, gen[1])>>,
                   calls |-> calls]
    ELSE LET gen   == FindLast(H, -n)
             calls == << <<"find_last", -n>> >>
         IN  IF Len(gen) < -n
             THEN [kind |-> "IndexOutOfRange", pairs |-> <<>>, calls |-> calls]
             ELSE [kind |-> "ok", pairs |-> <<Pair(H, isOpen, gen[-n])>>,
                   calls |-> calls]

\* a variant of SearchStr that goes to the partial-uid lookup whatever the
\* length of the key
SearchStrAlwaysPartial(u, H, isOpen) ==
    LET calls   == << <<"find_run_starts_regex", u>> >>
        results == FindRunStartsUidRegex(H, u)
    IN  IF results = <<>>
        THEN [kind |-> "NotFoundError", pairs |-> <<>>, calls |-> calls]
        ELSE IF Len(results) > 1
        THEN [kind |-> "AmbiguousKey", pairs |-> <<>>, calls |-> calls]
        ELSE [kind |-> "ok", pairs |-> <<Pair(H, isOpen, results[1])>>,
              calls |-> calls]

\* a variant of SearchStr that takes the most recent of several matches
SearchStrFirstMatch(u, H, isOpen) ==
    LET exact   == IF Len(u) = UidLen THEN FindRunStartsUid(H, u) ELSE <<>>
        calls1  == IF Len(u) = UidLen THEN << <<"find_run_starts_uid", u>> >> ELSE <<>>
        partial == exact = <<>>
        results == IF partial THEN FindRunStartsUidRegex(H, u) ELSE exact
        calls   == IF partial THEN Append(calls1, <<"find_run_starts_regex", u>>)
                   ELSE calls1
    IN  IF results = <<>>
        THEN [kind |-> "NotFoundError", pairs |-> <<>>, calls |-> calls]
        ELSE [kind |-> "ok", pairs |-> <<Pair(H, isOpen, results[1])>>,
              calls |-> calls]

\* search.register(str)
SearchStr(u, H, isOpen) ==
    LET exact   == IF Len(u) = UidLen THEN FindRunStartsUid(H, u) ELSE <<>>
        calls1  == IF Len(u) = UidLen THEN << <<"find_run_starts_uid", u>> >> ELSE <<>>
        \* `if not results:` try the key as a partial uid
        partial == exact = <<>>
        results == IF partial THEN FindRunStartsUidRegex(H, u) ELSE exact
        calls   == IF partial THEN Append(calls1, <<"find_run_starts_regex", u>>)
                   ELSE calls1
    IN  IF results = <<>>
        THEN [kind |-> "NotFoundError", pairs |-> <<>>, calls |-> calls]
        ELSE IF Len(results) > 1
        THEN [kind |-> "AmbiguousKey", pairs |-> <<>>, calls |-> calls]
        ELSE [kind |-> "ok", pairs |-> <<Pair(H, isOpen, results[1])>>,
              calls |-> calls]

\* the default search: a key of no registered type
SearchDefault == [kind |-> "UnsupportedKeyType", pairs |-> <<>>, calls |-> <<>>]

CollectionTypes == {"set", "tuple", "list"}

RECURSIVE Search(_, _, _)

\* a variant of SearchSum that leaves out the elements that fail
RECURSIVE SearchSumSkipsFailed(_, _, _, _)
SearchSumSkipsFailed(elems, H, isOpen, acc) ==
    IF elems = <<>> THEN acc
    ELSE LET r == Search(Head(elems), H, isOpen)
         IN  SearchSumSkipsFailed(Tail(elems), H, isOpen,
                 [kind |-> "ok",
                  pairs |-> IF r.kind = "ok" THEN acc.pairs \o r.pairs ELSE acc.pairs,
                  calls |-> acc.calls \o r.calls])

\* search.register(set, tuple, MutableSequence):
\* sum((search(k, db) for k in key), []), the elements in iteration order;
\* an element that raises ends the sum
RECURSIVE SearchSum(_, _, _, _)
SearchSum(elems, H, isOpen, acc) ==
    IF elems = <<>> THEN acc
    ELSE LET r == Search(Head(elems), H, isOpen)
         IN  IF r.kind # "ok"
             THEN [kind |-> r.kind, pairs |-> <<>>, calls |-> acc.calls \o r.calls]
             ELSE SearchSum(Tail(elems), H, isOpen,
                      [kind |-> "ok", pairs |-> acc.pairs \o r.pairs,
                       calls |-> acc.calls \o r.calls])

\* search(key, db): dispatch on the key's type
Search(k, H, isOpen) ==
    IF k.type = "int" THEN SearchInt(k.n, H, isOpen)
    ELSE IF k.type = "slice" THEN SearchSlice(k, H, isOpen)
    ELSE IF k.type = "str" THEN SearchStr(k.s, H, isOpen)
    ELSE IF k.type \in CollectionTypes
    THEN SearchSum(k.elems, H, isOpen, [kind |-> "ok", pairs |-> <<>>, calls |-> <<>>])
    ELSE SearchDefault

\* a variant of GetItem that squeezes whatever the type of the key
GetItemSqueezesAll(k, H, isOpen) ==
    LET r   == Search(k, H, isOpen)
        ret == r.pairs
    IN  [kind |-> r.kind, pairs |-> r.pairs, calls |-> r.calls,
         form |-> IF r.kind # "ok" THEN "raised"
                  ELSE IF Len(ret) = 1 THEN "header" ELSE "list",
         ret  |-> ret]

\* BrokerES.__getitem__: one Header per pair search gave; a single Header is
\* returned bare unless the key is a set, tuple, list or slice
GetItem(k, H, isOpen) ==
    LET r       == Search(k, H, isOpen)
        ret     == r.pairs
        squeeze == k.type \notin (CollectionTypes \cup {"slice"})
    IN  [kind |-> r.kind, pairs |-> r.pairs, calls |-> r.calls,
         form |-> IF r.kind # "ok" THEN "raised"
                  ELSE IF squeeze /\ Len(ret) = 1 THEN "header" ELSE "list",
         ret  |-> ret]

\* keys tried
IntKeys   == (-(MaxRuns + 1)) .. (MaxScanId + 1)
OptBounds == {None} \cup {Some(i) : i \in (-(MaxRuns + 1)) .. 1}
OptSteps  == {None} \cup {Some(i) : i \in (-2) .. 2}
SliceKeys == [type : {"slice"}, start : OptBounds, stop : OptBounds, step : OptSteps]
NoKey     == [type |-> "none"]
NoResult  == [kind |-> "none", pairs |-> <<>>, calls |-> <<>>,
              form |-> "none", ret |-> <<>>]

\* string keys tried: complete uids, their beginnings, characters of their
\* interior, 36 characters that begin a longer uid, 36 that begin none
StrKeys == {[type |-> "str", s |-> u] :
               u \in UidMenu \cup {<<>>, <<"a">>, <<"b">>, <<"x">>, <<"y">>,
                                   SubSeq(UidD, 1, UidLen), Pad(UidLen)}}

\* elements of the collection keys tried, by constructor
IntKey(n) == [type |-> "int", n |-> n]
StrKey(u) == [type |-> "str", s |-> u]
SliceKey(a, b, c) == [type |-> "slice", start |-> a, stop |-> b, step |-> c]
CollKey(t, es) == [type |-> t, elems |-> es]
OtherKey == [type |-> "other"]
ElemKeys == {IntKey(-1), IntKey(0), StrKey(<<"a">>), SliceKey(Some(-2), None, None),
             CollKey("tuple", <<IntKey(-1), StrKey(<<"b">>)>>), OtherKey}
\* what a set can hold: hashable keys, each once
HashableKeys == {IntKey(-1), IntKey(0), StrKey(<<"a">>)}
ElemSeqs == UNION {[1 .. n -> ElemKeys] : n \in 0 .. MaxElems}
SetOrders == {es \in UNION {[1 .. n -> HashableKeys] : n \in 0 .. MaxElems} :
                 \A i \in DOMAIN es : \A j \in DOMAIN es : i # j => es[i] # es[j]}
CollectionKeys == {CollKey(t, es) : t \in {"tuple", "list"}, es \in ElemSeqs}
                  \cup {CollKey("set", es) : es \in SetOrders}
\* keys tried next to the string and collection keys
PlainKeys == {IntKey(-1), IntKey(0), SliceKey(Some(-1), None, None),
              SliceKey(Some(-2), Some(-1), None), SliceKey(Some(-2), None, None),
              OtherKey}

\* hs.insert('start', doc): a new run, the most recent from now on
InsertStart(s, u) ==
    /\ key = NoKey
    /\ Len(runs) < MaxRuns
    /\ ~open
    /\ \A i \in DOMAIN runs : runs[i].uid # u
    /\ runs' = Append(runs, [uid |-> u, scan_id |-> s])
    /\ open' = TRUE
    /\ UNCHANGED <<key, result, fillVars, docVars, viewVars, tableVars, moreVars>>

\* hs.insert('stop', doc): the most recent run is closed
InsertStop ==
    /\ key = NoKey
    /\ open
    /\ open' = FALSE
    /\ UNCHANGED <<runs, key, result, fillVars, docVars, viewVars, tableVars, moreVars>>

\* db[n] for an integer n
GetItemInt(n) ==
    /\ key = NoKey
    /\ key' = [type |-> "int", n |-> n]
    /\ result' = GetItem([type |-> "int", n |-> n], runs, open)
    /\ UNCHANGED <<runs, open, fillVars, docVars, viewVars, tableVars, moreVars>>

\* db[a:b:c]
GetItemSlice(k) ==
    /\ key = NoKey
    /\ key' = k
    /\ result' = GetItem(k, runs, open)
    /\ UNCHANGED <<runs, open, fillVars, docVars, viewVars, tableVars, moreVars>>

\* db['...'] for a string
GetItemStr(k) ==
    /\ key = NoKey
    /\ key' = k
    /\ result' = GetItem(k, runs, open)
    /\ UNCHANGED <<runs, open, fillVars, docVars, viewVars, tableVars, moreVars>>

\* db[(k1, ...)], db[[k1, ...]], db[{k1, ...}]
GetItemCollection(k) ==
    /\ key = NoKey
    /\ key' = k
    /\ result' = GetItem(k, runs, open)
    /\ UNCHANGED <<runs, open, fillVars, docVars, viewVars, tableVars, moreVars>>

\* db[key] for a key of no registered type
GetItemOther ==
    /\ key = NoKey
    /\ key' = OtherKey
    /\ result' = GetItem(OtherKey, runs, open)
    /\ UNCHANGED <<runs, open, fillVars, docVars, viewVars, tableVars, moreVars>>

\* the caller is done with what db[key] returned (or raised)
GetItemReturn ==
    /\ key # NoKey
    /\ key' = NoKey
    /\ result' = NoResult
    /\ UNCHANGED <<runs, open, fillVars, docVars, viewVars, tableVars, moreVars>>

SearchNext ==
    \/ \E s \in ScanIds : InsertStart(s, IndexUid(Len(runs) + 1))
    \/ InsertStop
    \/ \E n \in IntKeys : GetItemInt(n)
    \/ \E k \in SliceKeys : GetItemSlice(k)
    \/ GetItemReturn

\* hs.insert('start', doc) with a uid the writer picks, the store kept to
\* MaxStored runs
InsertStartUid(s, u) ==
    /\ Len(runs) < MaxStored
    /\ InsertStart(s, u)

KeysNext ==
    \/ \E s \in ScanIds, u \in UidMenu : InsertStartUid(s, u)
    \/ InsertStop
    \/ \E k \in {pk \in PlainKeys : pk.type = "int"} : GetItemInt(k.n)
    \/ \E k \in {pk \in PlainKeys : pk.type = "slice"} : GetItemSlice(k)
    \/ \E k \in StrKeys : GetItemStr(k)
    \/ \E k \in CollectionKeys : GetItemCollection(k)
    \/ GetItemOther
    \/ GetItemReturn

\* ============================================================ fill pipeline

Keys == {"a", "b"}

\* An EventDescriptor: its data_keys and those marked 'external'; its uid is
\* its position in the descriptors argument.
Descriptors == {d \in [keys : SUBSET Keys, ext : SUBSET Keys] :
                    d.keys # {} /\ d.ext \subseteq d.keys}
DescSeqs == UNION {[1 .. n -> Descriptors] : n \in 1 .. MaxDescs}

\* The fields / fill selector: True, False, or a collection of keys
SelTrue  == [kind |-> "True", keys |-> {}]
SelFalse == [kind |-> "False", keys |-> {}]
Selectors == {SelTrue, SelFalse} \cup {[kind |-> "set", keys |-> ks] : ks \in SUBSET Keys}

\* Values held in data / filled
Ref(n, k) == <<"datum", n, k>>       \* a reference id (datum id)
Payload(v) == <<"payload", v>>       \* what retrieve returns for v
Scalar(k) == <<"scalar", k>>
NotFilled == <<"False">>
IsRef(v) == v[1] = "datum"

\* The n-th event a caller pushes, of descriptor uid: every data key is present,
\* external keys hold a reference id and are marked not filled.
MkEvent(uid, d, n) ==
    [descriptor |-> uid,
     data   |-> [k \in d.keys |-> IF k \in d.ext THEN Ref(n, k) ELSE Scalar(k)],
     filled |-> [k \in d.ext |-> NotFilled]]

\* dict assignment m[k] = v
DictSet(m, k, v) == [x \in DOMAIN m \cup {k} |-> IF x = k THEN v ELSE m[x]]

\* a variant of IsPassThrough that tests for an empty collection instead
IsPassThroughIfEmpty(sel) == sel.kind = "set" /\ sel.keys = {}

\* `elif fields is False` : the coroutine only forwards
IsPassThrough(sel) == sel.kind = "False"

\* fill_map[d['uid']] : the descriptor's external keys, cut to the selector
FillKeys(d, sel) == IF sel.kind = "set" THEN d.ext \cap sel.keys ELSE d.ext

\* registry_map : the (descriptor uid, key) pairs with a handler
RegistryMap(descs) == {<<i, k>> : i \in DOMAIN descs, k \in Keys} \cap
                      {p \in (DOMAIN descs) \X Keys : p[2] \in descs[p[1]].ext}

\* The keys the loop  `for k, v in fill_map.items(): for dk in v:`  visits, in
\* order: descriptors in insertion order, each set in the iteration order ord.
LoopKeys(descs, sel, ord) ==
    Flatten([i \in DOMAIN descs |->
                SelectSeq(ord, LAMBDA k : k \in FillKeys(descs[i], sel))])

KeyOrders == {<<"a", "b">>, <<"b", "a">>}

\* One pass of the loop body over plan, on event ev (object oid). lenient says
\* what retrieve does with a value that is not a datum id of the registry.
RECURSIVE FillLoop(_, _, _, _, _, _)
FillLoop(ev, plan, descs, lenient, rd, rt) ==
    IF plan = <<>>
    THEN [ev |-> ev, err |-> "none", reads |-> rd, retrieved |-> rt]
    ELSE LET dk  == Head(plan)
             rd1 == Append(rd, dk)
         IN  IF dk \notin DOMAIN ev.data
             THEN [ev |-> ev, err |-> "KeyError", reads |-> rd1, retrieved |-> rt]
             ELSE IF <<ev.descriptor, dk>> \notin RegistryMap(descs)
             THEN [ev |-> ev, err |-> "KeyError", reads |-> rd1, retrieved |-> rt]
             ELSE LET d_id == ev.data[dk]
                      rt1  == Append(rt, <<dk, d_id>>)
                  IN  IF ~IsRef(d_id) /\ ~lenient
                      THEN [ev |-> ev, err |-> "RetrieveError",
                            reads |-> rd1, retrieved |-> rt1]
                      ELSE FillLoop([ev EXCEPT !.data = DictSet(@, dk, Payload(d_id)),
                                               !.filled = DictSet(@, dk, d_id)],
                                    Tail(plan), descs, lenient, rd1, rt1)

\* a variant of WorksOnCopy that never copies
WorksOnCopyNever(inpl) == FALSE

\* `if not inplace:` sanitize, deepcopy, prepare_hook: work on a new object
WorksOnCopy(inpl) == ~inpl

\* proc_gen = self._fill_events_coro(...); proc_gen.send(None)
FillPrime ==
    /\ cpc = "created"
    /\ cpc' = "waiting"
    /\ UNCHANGED <<descriptors, fields, inplace, heap, pushed, retrieved, reads,
                   searchVars, docVars, viewVars, tableVars, moreVars>>

\* proc_gen.send(ev) with fields False: `ev = yield ev`
FillSendNoop(uid) ==
    /\ cpc = "waiting"
    /\ Len(pushed) < MaxEvents
    /\ IsPassThrough(fields)
    /\ LET ev  == MkEvent(uid, descriptors[uid], Len(pushed) + 1)
           oid == Len(heap) + 1
       IN  /\ heap' = Append(heap, ev)
           /\ pushed' = Append(pushed, [in |-> oid, obj |-> oid, out |-> oid,
                                        before |-> ev, err |-> "none"])
    /\ UNCHANGED <<descriptors, fields, inplace, cpc, retrieved, reads,
                   searchVars, docVars, viewVars, tableVars, moreVars>>

\* proc_gen.send(ev) otherwise: one round of the `while True` loop
FillSend(uid, ord, lenient) ==
    /\ cpc = "waiting"
    /\ Len(pushed) < MaxEvents
    /\ ~IsPassThrough(fields)
    /\ LET ev   == MkEvent(uid, descriptors[uid], Len(pushed) + 1)
           oid  == Len(heap) + 1
           obj  == IF WorksOnCopy(inplace) THEN oid + 1 ELSE oid
           r    == FillLoop(ev, LoopKeys(descriptors, fields, ord),
                            descriptors, lenient, <<>>, <<>>)
       IN  /\ heap' = IF WorksOnCopy(inplace)
                      THEN heap \o <<ev, r.ev>>
                      ELSE Append(heap, r.ev)
           /\ pushed' = Append(pushed,
                  [in |-> oid, obj |-> obj,
                   out |-> IF r.err = "none" THEN obj ELSE 0,
                   before |-> ev, err |-> r.err])
           /\ retrieved' = retrieved \o
                  [i \in 1 .. Len(r.retrieved) |-> <<oid>> \o r.retrieved[i]]
           /\ reads' = reads \o [i \in 1 .. Len(r.reads) |-> <<oid, r.reads[i]>>]
           /\ cpc' = IF r.err = "none" THEN "waiting" ELSE "failed"
    /\ UNCHANGED <<descriptors, fields, inplace, searchVars, docVars, viewVars, tableVars, moreVars>>

\* proc_gen.close()
FillClose ==
    /\ cpc = "waiting"
    /\ cpc' = "closed"
    /\ UNCHANGED <<descriptors, fields, inplace, heap, pushed, retrieved, reads,
                   searchVars, docVars, viewVars, tableVars, moreVars>>

FillNext ==
    \/ FillPrime
    \/ \E uid \in DOMAIN descriptors : FillSendNoop(uid)
    \/ \E uid \in DOMAIN descriptors, ord \in KeyOrders, lenient \in BOOLEAN :
           FillSend(uid, ord, lenient)
    \/ FillClose

\* ========================================================= document stream

MaxHeaders == 2     \* headers handed to one get_documents / get_events / get_table call

\* self.event_sources, in registration order
EventSources == <<"es1", "es2">>

\* h.descriptors of the headers a caller may pass
HeaderMenu ==
    { << [keys |-> {"a"}, ext |-> {}] >>,
      << [keys |-> {"a", "b"}, ext |-> {"a"}] >>,
      << [keys |-> {"a"}, ext |-> {"a"}], [keys |-> {"b"}, ext |-> {"b"}] >> }
HeaderSeqs == UNION {[1 .. n -> HeaderMenu] : n \in 1 .. MaxHeaders}

\* the fields whitelist: None or a list of key names
Whitelists == {None, Some({"b"})}
FillSelectors == {SelFalse, SelTrue}
Apis == {"get_documents", "get_events"}

\* the override a call passes as handler_registry
Override == "override"

\* reg.handler_context(handler_registry): entering pushes the override,
\* leaving pops it
HandlerPush(reg, o) == Append(reg, o)
HandlerPop(reg) == SubSeq(reg, 1, Len(reg) - 1)

\* check_fields_exist(fields, headers): every name is a data key of at least
\* one descriptor of the headers
CheckFieldsExist(flds, headers) ==
    flds \subseteq UNION {UNION {headers[h][i].keys : i \in DOMAIN headers[h]} :
                           h \in DOMAIN headers}

\* the event a source yields under the whitelist: data cut to the whitelist
SourceEvent(uid, d, n, wl) ==
    LET ev == MkEvent(uid, d, n)
        ks == IF IsNone(wl) THEN d.keys ELSE d.keys \cap Val(wl)
    IN  [descriptor |-> uid,
         data   |-> [k \in ks |-> ev.data[k]],
         filled |-> [k \in ks \cap d.ext |-> NotFilled]]

\* a variant of Prologue that enters the handler context before the check
ProloguePushFirst(c) ==
    IF CheckFieldsExist(IF IsNone(c.fields) THEN {} ELSE Val(c.fields), c.headers)
    THEN <<"push", "check", "coro", "docs">>
    ELSE <<"push", "check", "pop">>

\* get_documents up to its first `for name, doc in gen`: the effects of the
\* first next(), in order
Prologue(c) ==
    IF CheckFieldsExist(IF IsNone(c.fields) THEN {} ELSE Val(c.fields), c.headers)
    THEN <<"check", "push", "coro", "docs">>
    ELSE <<"check">>

\* a variant of NextSource that walks the sources backwards
NextSourceReversed(h, es, nHeaders) ==
    IF es > 1 THEN <<h, es - 1>>
    ELSE IF h < nHeaders THEN <<h + 1, Len(EventSources)>>
    ELSE <<0, 0>>

\* the event source asked after source es of header h is exhausted:
\* <<header, source>>, or <<0, 0>> when the last header is done
NextSource(h, es, nHeaders) ==
    IF es < Len(EventSources) THEN <<h, es + 1>>
    ELSE IF h < nHeaders THEN <<h + 1, 1>>
    ELSE <<0, 0>>

\* whether get_events hands a document of this name to its caller
PassesGetEvents(name) == name = "event"

\* the caller's first next(): the generator body runs up to the first source
DocStart ==
    /\ consumer = "iterating"
    /\ gpc = "created"
    /\ LET t == Prologue(call)
       IN  /\ trace' = t
           /\ IF t[Len(t)] = "docs"
              THEN /\ gpc' = "running"
                   /\ registry' = HandlerPush(registry, Override)
                   /\ hIdx' = 1
                   /\ esIdx' = 1
                   /\ UNCHANGED <<consumer, gerr>>
              ELSE /\ gpc' = "raised"
                   /\ gerr' = "FieldNotFound"
                   /\ consumer' = "done"
                   /\ UNCHANGED <<registry, hIdx, esIdx>>
    /\ UNCHANGED <<call, sourced, emitted, yielded, filledIds, searchVars, fillVars, viewVars, tableVars, moreVars>>

\* the caller's next() on a suspended generator
DocResume ==
    /\ consumer = "iterating"
    /\ gpc = "suspended"
    /\ gpc' = "running"
    /\ UNCHANGED <<call, consumer, hIdx, esIdx, sourced, emitted, yielded,
                   filledIds, registry, trace, gerr, searchVars, fillVars, viewVars, tableVars, moreVars>>

\* the current source yields a document that is not an event
SourceYieldOther ==
    /\ gpc = "running"
    /\ Len(sourced) < MaxDocs
    /\ LET doc == [name |-> "descriptor", id |-> Len(sourced) + 1,
                   h |-> hIdx, es |-> esIdx]
       IN  /\ sourced' = Append(sourced, doc)
           /\ emitted' = Append(emitted, doc)
           /\ trace' = Append(trace, "yield")
           /\ IF call.api = "get_documents" \/ PassesGetEvents(doc.name)
              THEN /\ yielded' = Append(yielded, doc)
                   /\ gpc' = "suspended"
              ELSE UNCHANGED <<yielded, gpc>>
    /\ UNCHANGED <<call, consumer, hIdx, esIdx, filledIds, registry, gerr,
                   searchVars, fillVars, viewVars, tableVars, moreVars>>

\* the current source yields an event of descriptor uid: proc_gen.send(doc)
SourceYieldEvent(uid, ord, lenient) ==
    /\ gpc = "running"
    /\ Len(sourced) < MaxDocs
    /\ LET descs == call.headers[hIdx]
           id    == Len(sourced) + 1
           ev    == SourceEvent(uid, descs[uid], id, call.fields)
           r     == IF IsPassThrough(call.fill)
                    THEN [ev |-> ev, err |-> "none"]
                    ELSE FillLoop(ev, LoopKeys(descs, call.fill, ord),
                                  descs, lenient, <<>>, <<>>)
           doc   == [name |-> "event", id |-> id, h |-> hIdx, es |-> esIdx]
       IN  /\ sourced' = Append(sourced, doc)
           /\ filledIds' = Append(filledIds, id)
           /\ IF r.err = "none"
              THEN /\ emitted' = Append(emitted, doc)
                   /\ yielded' = Append(yielded, doc)
                   /\ trace' = Append(trace, "yield")
                   /\ gpc' = "suspended"
                   /\ UNCHANGED <<registry, gerr, consumer>>
              ELSE /\ gpc' = "raised"
                   /\ gerr' = r.err
                   /\ registry' = HandlerPop(registry)
                   /\ trace' = Append(trace, "pop")
                   /\ consumer' = "done"
                   /\ UNCHANGED <<emitted, yielded>>
    /\ UNCHANGED <<call, hIdx, esIdx, searchVars, fillVars, viewVars, tableVars, moreVars>>

\* the current source is exhausted: next source, next header, or the end
SourceExhausted ==
    /\ gpc = "running"
    /\ LET nx == NextSource(hIdx, esIdx, Len(call.headers))
       IN  IF nx = <<0, 0>>
           THEN /\ gpc' = "exhausted"
                /\ registry' = HandlerPop(registry)
                /\ trace' = Append(trace, "pop")
                /\ consumer' = "done"
                /\ UNCHANGED <<hIdx, esIdx>>
           ELSE /\ hIdx' = nx[1]
                /\ esIdx' = nx[2]
                /\ trace' = trace \o (IF nx[1] # hIdx THEN <<"coro", "docs">>
                                      ELSE <<"docs">>)
                /\ UNCHANGED <<gpc, registry, consumer>>
    /\ UNCHANGED <<call, sourced, emitted, yielded, filledIds, gerr,
                   searchVars, fillVars, viewVars, tableVars, moreVars>>

\* the current source raises while streaming
SourceRaises ==
    /\ gpc = "running"
    /\ gpc' = "raised"
    /\ gerr' = "SourceError"
    /\ registry' = HandlerPop(registry)
    /\ trace' = Append(trace, "pop")
    /\ consumer' = "done"
    /\ UNCHANGED <<call, hIdx, esIdx, sourced, emitted, yielded, filledIds,
                   searchVars, fillVars, viewVars, tableVars, moreVars>>

\* the caller leaves its loop early (break, or its own code raises)
ConsumerBreak ==
    /\ consumer = "iterating"
    /\ gpc \in {"created", "suspended"}
    /\ consumer' = "stopped"
    /\ UNCHANGED <<call, gpc, hIdx, esIdx, sourced, emitted, yielded, filledIds,
                   registry, trace, gerr, searchVars, fillVars, viewVars, tableVars, moreVars>>

\* the abandoned generator is closed: by the caller, or when the interpreter
\* collects it. GeneratorExit is raised at the yield and unwinds the `with`.
GeneratorClose ==
    /\ consumer = "stopped"
    /\ gpc \in {"created", "suspended"}
    /\ gpc' = "closed"
    /\ IF gpc = "suspended"
       THEN /\ registry' = HandlerPop(registry)
            /\ trace' = Append(trace, "pop")
       ELSE UNCHANGED <<registry, trace>>
    /\ UNCHANGED <<call, consumer, hIdx, esIdx, sourced, emitted, yielded,
                   filledIds, gerr, searchVars, fillVars, viewVars, tableVars, moreVars>>

\* h.descriptors of the header being streamed
CurrentDescriptors ==
    IF gpc = "running" /\ hIdx \in DOMAIN call.headers THEN call.headers[hIdx] ELSE <<>>

DocNext ==
    \/ DocStart
    \/ DocResume
    \/ SourceYieldOther
    \/ \E uid \in DOMAIN CurrentDescriptors, ord \in KeyOrders, lenient \in BOOLEAN :
           SourceYieldEvent(uid, ord, lenient)
    \/ SourceExhausted
    \/ SourceRaises
    \/ ConsumerBreak
    \/ GeneratorClose

\* ============================================================ results view

MaxResults == 2     \* (start, stop) pairs the search behind a view gives
MaxIters   == 3     \* iterations of one view

\* header['descriptors'] of the runs a search may give: the data_keys of each
\* descriptor
DescriptorMenu == {<<{"b"}>>, <<{"b"}, {"a"}>>, <<{"a"}, {"a", "b"}>>}
\* the (start, stop) pairs of a search, the i-th with uid i
SourceSeqs == UNION {{[i \in 1 .. n |-> [uid |-> i, descs |-> f[i]]] :
                         f \in [1 .. n -> DescriptorMenu]} : n \in 0 .. MaxResults}
DataKeys == {None, Some("a")}

\* a variant of ForkNext that reads the source itself, without tee
NextOfSource(pos, buf, src) ==
    IF src # <<>>
    THEN [has |-> TRUE, item |-> Head(src), buf |-> buf, src |-> Tail(src)]
    ELSE [has |-> FALSE, item |-> <<>>, buf |-> buf, src |-> src]

\* next() of a fork `self._res, res = itertools.tee(self._res)` gave, the fork
\* having taken pos items: the item the tee already holds, else the next item
\* of the source, which the tee keeps for the other forks
ForkNext(pos, buf, src) ==
    IF pos < Len(buf)
    THEN [has |-> TRUE, item |-> buf[pos + 1], buf |-> buf, src |-> src]
    ELSE IF src # <<>>
    THEN [has |-> TRUE, item |-> Head(src), buf |-> Append(buf, Head(src)),
          src |-> Tail(src)]
    ELSE [has |-> FALSE, item |-> <<>>, buf |-> buf, src |-> src]

\* `for descriptor in header['descriptors']: if self._data_key in ...`: the
\* first descriptor from index d on that has the data key, or 0
FirstMatch(descs, dk, d) ==
    LET m == {i \in DOMAIN descs : i >= d /\ dk \in descs[i]}
    IN  IF m = {} THEN 0 ELSE CHOOSE i \in m : \A j \in m : i <= j

\* a variant of AfterYield without the break: the loop goes on
AfterYieldContinue(d) == d + 1

\* where the descriptor loop resumes after `yield header` at descriptor d:
\* `break` leaves the loop (0)
AfterYield(d) == 0

\* the generator runs from `for start, stop in res` to its next yield or its
\* end; it is the iteration, with pos items taken
RECURSIVE PullUntilYield(_, _, _, _)
PullUntilYield(it, buf, src, dk) ==
    LET r == ForkNext(it.pos, buf, src)
    IN  IF ~r.has
        THEN [it |-> [it EXCEPT !.st = "done", !.d = 0], buf |-> r.buf, src |-> r.src]
        ELSE LET m == IF IsNone(dk) THEN 0 ELSE FirstMatch(r.item.descs, Val(dk), 1)
             IN  IF IsNone(dk) \/ m > 0
                 THEN [it |-> [it EXCEPT !.st = "suspended", !.pos = @ + 1, !.d = m,
                                         !.out = Append(@, r.item.uid)],
                       buf |-> r.buf, src |-> r.src]
                 ELSE PullUntilYield([it EXCEPT !.pos = @ + 1], r.buf, r.src, dk)

\* one next() of the generator Results.__iter__ returned
GenNext(it, buf, src, dk) ==
    LET from == IF it.d > 0 THEN AfterYield(it.d) ELSE 0
        m    == IF from > 0 THEN FirstMatch(buf[it.pos].descs, Val(dk), from) ELSE 0
    IN  IF m > 0
        THEN [it |-> [it EXCEPT !.d = m, !.out = Append(@, buf[it.pos].uid)],
              buf |-> buf, src |-> src]
        ELSE PullUntilYield(it, buf, src, dk)

InProgress(its) == {i \in DOMAIN its : its[i].st = "suspended"}

\* iter(results): a new generator, of which no code has run yet; amid
\* records whether its first next() came while another iteration was suspended
ViewIter ==
    /\ Len(iters) < MaxIters
    /\ iters' = Append(iters, [st |-> "created", pos |-> 0, d |-> 0, out |-> <<>>,
                               amid |-> FALSE])
    /\ UNCHANGED <<source, teeBuf, dataKey, searchVars, fillVars, docVars, tableVars, moreVars>>

\* next() on the i-th iteration
ViewNext(i) ==
    /\ iters[i].st \in {"created", "suspended"}
    /\ LET it == IF iters[i].st = "created"
                 THEN [iters[i] EXCEPT !.amid = InProgress(iters) # {}]
                 ELSE iters[i]
           r  == GenNext(it, teeBuf, source, dataKey)
       IN  /\ iters' = [iters EXCEPT ![i] = r.it]
           /\ teeBuf' = r.buf
           /\ source' = r.src
    /\ UNCHANGED <<dataKey, searchVars, fillVars, docVars, tableVars, moreVars>>

\* the caller drops the i-th iteration part-way: the generator is closed at
\* its yield
ViewAbandon(i) ==
    /\ iters[i].st = "suspended"
    /\ iters' = [iters EXCEPT ![i].st = "abandoned", ![i].d = 0]
    /\ UNCHANGED <<source, teeBuf, dataKey, searchVars, fillVars, docVars, tableVars, moreVars>>

ViewStep ==
    \/ ViewIter
    \/ \E i \in DOMAIN iters : ViewNext(i)
    \/ \E i \in DOMAIN iters : ViewAbandon(i)

\* =================================================================== table

MaxRows == 2        \* rows of a table an event source gives, when it has any

\* get_table's stream_name default
StreamName == "primary"

\* h.descriptors of the headers a caller may pass to get_table
NamedDesc(nm, ks, ext) == [name |-> nm, keys |-> ks, ext |-> ext]
TableHeaderMenu ==
    { << NamedDesc("primary", {"a", "b"}, {"a"}) >>,
      << NamedDesc("baseline", {"a"}, {"a"}) >>,
      << NamedDesc("baseline", {"b"}, {}), NamedDesc("primary", {"a", "b"}, {"a", "b"}) >> }
TableHeaderSeqs == UNION {[1 .. n -> TableHeaderMenu] : n \in 1 .. MaxHeaders}
TableFills == {SelFalse, SelTrue, [kind |-> "set", keys |-> {"a"}]}

\* `desc = next((d for d in h.descriptors if d.name == stream_name), None)`:
\* the index of the first descriptor of the stream, or 0
StreamDescriptor(descs) ==
    LET m == {i \in DOMAIN descs : descs[i].name = StreamName}
    IN  IF m = {} THEN 0 ELSE CHOOSE i \in m : \A j \in m : i <= j

\* es.table_given_header(header, fields, stream_name, ...): n rows of the
\* stream's events, one column per data key of the whitelist, the external
\* columns holding reference ids
TableGivenHeader(h, es, d, n, wl) ==
    LET ks == IF IsNone(wl) THEN d.keys ELSE d.keys \cap Val(wl)
    IN  [h |-> h, es |-> es, rows |-> n,
         cols |-> [k \in ks |-> [i \in 1 .. n |->
                     IF k \in d.ext THEN Ref(<<h, es, i>>, k) ELSE Scalar(k)]]]

\* fill_table's loop `for k in fill_keys: table[k] = [reg.retrieve(value) ...]`
\* over the keys in plan
RECURSIVE FillColumns(_, _, _)
FillColumns(table, plan, rt) ==
    IF plan = <<>>
    THEN [table |-> table, err |-> "none", retrieved |-> rt]
    ELSE LET k == Head(plan)
         IN  IF k \notin DOMAIN table.cols
             THEN [table |-> table, err |-> "KeyError", retrieved |-> rt]
             ELSE LET col == table.cols[k]
                  IN  FillColumns(
                          [table EXCEPT !.cols = DictSet(@, k,
                               [i \in DOMAIN col |-> Payload(col[i])])],
                          Tail(plan),
                          rt \o [i \in DOMAIN col |-> <<k, col[i]>>])

\* fill_table(table, descriptor, fields, inplace): fields True or None fills
\* every external key, False returns the table as it is, a set cuts the
\* external keys
FillTable(table, d, sel, ord) ==
    IF IsPassThrough(sel)
    THEN [table |-> table, err |-> "none", retrieved |-> <<>>]
    ELSE FillColumns(table, SelectSeq(ord, LAMBDA k : k \in FillKeys(d, sel)), <<>>)

\* the fields argument of get_table's call `self.fill_table(table, desc,
\* inplace=True)`: none is passed, so fill_table's default None, which fills
\* every external key as True does
FillTableFields(fill) == SelTrue

\* get_table up to its first event source: the handler context is entered
TableStart ==
    /\ tpc = "created"
    /\ tpc' = "running"
    /\ tReg' = HandlerPush(tReg, Override)
    /\ tpos' = <<1, 1>>
    /\ UNCHANGED <<tcall, dfs, tRetrieved, searchVars, fillVars, docVars, viewVars, moreVars>>

\* `if desc is None: continue`
TableSkipHeader ==
    /\ tpc = "running"
    /\ tpos[1] <= Len(tcall.headers)
    /\ StreamDescriptor(tcall.headers[tpos[1]]) = 0
    /\ tpos' = <<tpos[1] + 1, 1>>
    /\ UNCHANGED <<tcall, tpc, dfs, tRetrieved, tReg, searchVars, fillVars, docVars,
                   viewVars, moreVars>>

\* one round of `for es in self.event_sources`: the source's table of n rows,
\* filled and collected when it has rows
TableFromSource(n, ord) ==
    /\ tpc = "running"
    /\ tpos[1] <= Len(tcall.headers)
    /\ StreamDescriptor(tcall.headers[tpos[1]]) # 0
    /\ LET descs == tcall.headers[tpos[1]]
           d     == descs[StreamDescriptor(descs)]
           table == TableGivenHeader(tpos[1], tpos[2], d, n, tcall.fields)
           r     == IF n > 0
                    THEN FillTable(table, d, FillTableFields(tcall.fill), ord)
                    ELSE [table |-> table, err |-> "none", retrieved |-> <<>>]
       IN  /\ tRetrieved' = tRetrieved \o r.retrieved
           /\ IF r.err = "none"
              THEN /\ dfs' = IF n > 0 THEN Append(dfs, r.table) ELSE dfs
                   /\ tpos' = IF tpos[2] < Len(EventSources)
                              THEN <<tpos[1], tpos[2] + 1>>
                              ELSE <<tpos[1] + 1, 1>>
                   /\ UNCHANGED <<tpc, tReg>>
              ELSE /\ tpc' = r.err
                   /\ tReg' = HandlerPop(tReg)
                   /\ UNCHANGED <<dfs, tpos>>
    /\ UNCHANGED <<tcall, searchVars, fillVars, docVars, viewVars, moreVars>>

\* the headers are done: the handler context is left, the tables are
\* concatenated and returned
TableReturn ==
    /\ tpc = "running"
    /\ tpos[1] > Len(tcall.headers)
    /\ tpc' = "returned"
    /\ tReg' = HandlerPop(tReg)
    /\ UNCHANGED <<tcall, tpos, dfs, tRetrieved, searchVars, fillVars, docVars,
                   viewVars, moreVars>>

TableNext ==
    \/ TableStart
    \/ TableSkipHeader
    \/ \E n \in {0, MaxRows}, ord \in KeyOrders : TableFromSource(n, ord)
    \/ TableReturn

\* ------------------------------------------------- filters and aliases
MaxFilters == 2     \* entries of the filter list
MaxThunks  == 2     \* distinct queries and distinct thunks given to aliases

\* a filter entry is a query dict; what matters of it here is its key set
FilterKeys == {"user", "start_time", "stop_time"}
TimeKeys == {"start_time", "stop_time"}
FilterEntries == SUBSET FilterKeys

\* format_time(val, tz): start_time and stop_time are taken out of the dict
\* and a range query on 'time' is put in
FormatTime(e) == IF e \cap TimeKeys = {} THEN e ELSE (e \ TimeKeys) \cup {"time"}

\* the lists a caller assigns to db.filters
FilterLists == UNION {[1..n -> FilterEntries] : n \in 0..MaxFilters}

\* names a caller asks for: two free names and one attribute of the class
AliasNames == {"cal", "today", "filters"}
RealAttrs == {"filters"}
\* what is stored under an alias: a query (dyn = FALSE) or a thunk, by id
AliasValues == [dyn : BOOLEAN, id : 1..MaxThunks]

NoCall == [op |-> "none", key |-> "", kw |-> {}, val |-> None, err |-> "none",
           fBefore |-> <<>>, aBefore |-> <<>>, evals |-> <<>>, handed |-> <<>>]

\* add_filter's loop over self.filters: some key of kw is in some entry
KeyExistsFirstOnly(fl, kw) == fl # <<>> /\ fl[1] \cap kw # {}
KeyExists(fl, kw) == \E i \in DOMAIN fl : fl[i] \cap kw # {}

\* self(**query): the search is handed self.filters as it is
CallHands(fl) == <<fl>>

\* __getattr__(key), reached only when normal attribute lookup fails
GetAttr(al, fl, k) ==
    IF al[k] = None
    THEN [found |-> FALSE, evals |-> <<>>, handed |-> <<>>]
    ELSE [found |-> TRUE,
          evals |-> IF Val(al[k]).dyn THEN <<Val(al[k]).id>> ELSE <<>>,
          handed |-> CallHands(fl)]

\* hasattr(self, key): normal lookup first, then __getattr__
HasAttr(al, fl, k) ==
    IF k \in RealAttrs
    THEN [found |-> TRUE, evals |-> <<>>, handed |-> <<>>]
    ELSE GetAttr(al, fl, k)

\* db.filters = val
SetFilters(val) ==
    /\ filters' = [i \in DOMAIN val |-> FormatTime(val[i])]
    /\ last' = [NoCall EXCEPT !.op = "filters"]
    /\ UNCHANGED <<aliases, searchVars, fillVars, docVars, viewVars, tableVars,
                   exportVars, streams>>

\* db.add_filter(**kw)
AddFilter(kw) ==
    \* a full list takes only the calls that are refused
    /\ \/ Len(filters) < MaxFilters
       \/ kw \cap UNION {filters[i] : i \in DOMAIN filters} # {}
    /\ IF KeyExists(filters, kw)
       THEN /\ last' = [NoCall EXCEPT !.op = "add_filter", !.kw = kw,
                                      !.err = "DuplicateFilterKey",
                                      !.fBefore = filters]
            /\ UNCHANGED filters
       ELSE /\ filters' = Append(filters, kw)
            /\ last' = [NoCall EXCEPT !.op = "add_filter", !.kw = kw,
                                      !.fBefore = filters]
    /\ UNCHANGED <<aliases, searchVars, fillVars, docVars, viewVars, tableVars,
                   exportVars, streams>>

\* db.clear_filters()
ClearFilters ==
    /\ filters' = <<>>
    /\ last' = [NoCall EXCEPT !.op = "clear_filters", !.fBefore = filters]
    /\ UNCHANGED <<aliases, searchVars, fillVars, docVars, viewVars, tableVars,
                   exportVars, streams>>

\* db(**kwargs)
Call ==
    /\ last' = [NoCall EXCEPT !.op = "call", !.handed = CallHands(filters)]
    /\ UNCHANGED <<filters, aliases, searchVars, fillVars, docVars, viewVars,
                   tableVars, exportVars, streams>>

\* what alias() and dynamic_alias() share: the hasattr test, then the store
Register(op, k, v) ==
    LET h == HasAttr(aliases, filters, k)
        r == [NoCall EXCEPT !.op = op, !.key = k, !.val = Some(v),
                            !.aBefore = aliases, !.evals = h.evals,
                            !.handed = h.handed]
    IN  IF h.found /\ aliases[k] = None
        THEN /\ last' = [r EXCEPT !.err = "IllegalAliasName"]
             /\ UNCHANGED aliases
        ELSE /\ aliases' = [aliases EXCEPT ![k] = Some(v)]
             /\ last' = r

\* db.alias(key, **query)
Alias(k, q) ==
    /\ Register("alias", k, [dyn |-> FALSE, id |-> q])
    /\ UNCHANGED <<filters, searchVars, fillVars, docVars, viewVars, tableVars,
                   exportVars, streams>>

\* db.dynamic_alias(key, func)
DynamicAlias(k, f) ==
    /\ Register("dynamic_alias", k, [dyn |-> TRUE, id |-> f])
    /\ UNCHANGED <<filters, searchVars, fillVars, docVars, viewVars, tableVars,
                   exportVars, streams>>

\* db.<key> for a name that is not an attribute of the class
AliasLookup(k) ==
    /\ k \notin RealAttrs
    /\ LET g == GetAttr(aliases, filters, k)
       IN  last' = [NoCall EXCEPT !.op = "getattr", !.key = k,
                                  !.err = IF g.found THEN "none" ELSE "AttributeError",
                                  !.aBefore = aliases, !.evals = g.evals,
                                  !.handed = g.handed]
    /\ UNCHANGED <<filters, aliases, searchVars, fillVars, docVars, viewVars,
                   tableVars, exportVars, streams>>

FiltersNext ==
    \/ \E kw \in FilterEntries : AddFilter(kw)
    \/ ClearFilters
    \/ Call

FacadeNext ==
    \/ \E val \in FilterLists : SetFilters(val)
    \/ \E kw \in FilterEntries : AddFilter(kw)
    \/ ClearFilters
    \/ Call

AliasNext ==
    \/ \E k \in AliasNames, q \in 1..MaxThunks : Alias(k, q)
    \/ \E k \in AliasNames, f \in 1..MaxThunks : DynamicAlias(k, f)
    \/ \E k \in AliasNames : AliasLookup(k)

\* ----------------------------------------------------------------- export
MaxExport == 2      \* headers handed to one export call
MaxDatums == 2      \* datums of one resource

NoExport == [h |-> 0, phase |-> "idle", d |-> 0, todo |-> {}]

\* get_events' default stream, and the sentinel for every stream
Primary == "primary"
ALL == "ALL"

\* a run: its descriptors in the order the header lists them, each with the
\* name of its stream, and its events in the order the event sources give
\* them, each with its descriptor and the resource its external key points
\* into (0: the event has no external key)
Ev(d, res) == [d |-> d, res |-> res]
ExportHeaderMenu ==
    { [id |-> 1, descs |-> <<Primary>>, evs |-> <<Ev(1, 1), Ev(1, 1)>>],
      [id |-> 2, descs |-> <<Primary, "baseline">>, evs |-> <<Ev(1, 1), Ev(2, 2)>>],
      [id |-> 3, descs |-> <<"baseline", Primary>>, evs |-> <<Ev(2, 0)>>] }
ExportHeaderSeqs == UNION {[1..n -> ExportHeaderMenu] : n \in 0..MaxExport}

\* get_events(header, stream_name=...): the indices of the header's events of
\* that stream, in order
GetEvents(hd, stream) ==
    LET Pick(i) == stream = ALL \/ hd.descs[hd.evs[i].d] = stream
        F[n \in 0..Len(hd.evs)] ==
            IF n = 0 THEN <<>>
            ELSE IF Pick(n) THEN Append(F[n - 1], n) ELSE F[n - 1]
    IN  F[Len(hd.evs)]

\* get_resource_uids(header): the set of resources the events of every
\* stream point into
GetResourceUids(hd) ==
    LET evGen == GetEvents(hd, ALL)
    IN  {hd.evs[evGen[j]].res : j \in DOMAIN evGen} \ {0}

\* reg.datum_gen_given_resource(uid): the datum ids of a resource
DatumGenGivenResource(uid) == [n \in 1..MaxDatums |-> <<uid, n>>]

\* one call on the destination store or on the source registry
Did(op, h, a, b) == [op |-> op, h |-> h, a |-> a, b |-> b]
CurrentHeader == xcall[xpos.h]
\* db.reg.insert_resource gives the new resource an id of its own
NewResourceId == Cardinality({i \in DOMAIN dest : dest[i].op = "resource"}) + 1

\* `for header in headers`: insert_run_start, then the events generator is made
ExportStart ==
    /\ xpos.phase = "next"
    /\ xpos.h < Len(xcall)
    /\ xpos' = [h |-> xpos.h + 1, phase |-> "docs", d |-> 0, todo |-> {}]
    /\ dest' = Append(dest, Did("run_start", xcall[xpos.h + 1].id, 0, 0))
    /\ events' = GetEvents(xcall[xpos.h + 1], Primary)
    /\ UNCHANGED <<xcall, searchVars, fillVars, docVars, viewVars, tableVars,
                   facadeVars, streams>>

\* `for descriptor in header['descriptors']`: insert_descriptor
ExportDescriptor ==
    /\ xpos.phase = "docs"
    /\ xpos.d < Len(CurrentHeader.descs)
    /\ xpos.d = 0 \/ events = <<>>
    /\ xpos' = [xpos EXCEPT !.d = xpos.d + 1]
    /\ dest' = Append(dest, Did("descriptor", CurrentHeader.id, xpos.d + 1, 0))
    /\ UNCHANGED <<xcall, events, searchVars, fillVars, docVars, viewVars,
                   tableVars, facadeVars, streams>>

\* `for event in events`: insert_event of what the generator gives next
ExportEvent ==
    /\ xpos.phase = "docs"
    /\ xpos.d >= 1
    /\ events # <<>>
    /\ dest' = Append(dest, Did("event", CurrentHeader.id, Head(events),
                                CurrentHeader.evs[Head(events)].d))
    /\ events' = Tail(events)
    /\ UNCHANGED <<xcall, xpos, searchVars, fillVars, docVars, viewVars,
                   tableVars, facadeVars, streams>>

\* insert_run_stop, then res_uids = self.get_resource_uids(header)
ExportStop ==
    /\ xpos.phase = "docs"
    /\ xpos.d = Len(CurrentHeader.descs)
    /\ xpos.d = 0 \/ events = <<>>
    /\ dest' = Append(dest, Did("run_stop", CurrentHeader.id, 0, 0))
    /\ LET resUids == GetResourceUids(CurrentHeader)
       IN  xpos' = [xpos EXCEPT !.todo = resUids,
                                !.phase = IF resUids = {} THEN "next" ELSE "assets"]
    /\ UNCHANGED <<xcall, events, searchVars, fillVars, docVars, viewVars,
                   tableVars, facadeVars, streams>>

\* `for uid in res_uids`: copy_files, insert_resource, insert_datum of each
\* datum of the resource
ExportResource(uid) ==
    /\ xpos.phase = "assets"
    /\ uid \in xpos.todo
    /\ LET datums == DatumGenGivenResource(uid)
           newRes == NewResourceId
       IN  dest' = dest \o <<Did("copy_files", CurrentHeader.id, uid, 0),
                             Did("resource", CurrentHeader.id, uid, newRes)>>
                        \o [n \in DOMAIN datums |->
                               Did("datum", CurrentHeader.id, datums[n], newRes)]
    /\ xpos' = [xpos EXCEPT !.todo = xpos.todo \ {uid},
                            !.phase = IF xpos.todo = {uid} THEN "next" ELSE "assets"]
    /\ UNCHANGED <<xcall, events, searchVars, fillVars, docVars, viewVars,
                   tableVars, facadeVars, streams>>

\* return file_pairs
ExportReturn ==
    /\ xpos.phase = "next"
    /\ xpos.h = Len(xcall)
    /\ xpos' = [xpos EXCEPT !.phase = "returned"]
    /\ UNCHANGED <<xcall, events, dest, searchVars, fillVars, docVars, viewVars,
                   tableVars, facadeVars, streams>>

ExportNext ==
    \/ ExportStart
    \/ ExportDescriptor
    \/ ExportEvent
    \/ ExportStop
    \/ \E uid \in xpos.todo : ExportResource(uid)
    \/ ExportReturn

\* ------------------------------------------- two document streams at once
\* two get_documents generators of one Broker, consumed by one thread in
\* any order; stream s passes the override s as its handler_registry
MaxYields == 3      \* documents one stream yields before it ends

StreamIds == {1, 2}
NewStream == [st |-> "created", docs |-> 0, own |-> TRUE]

\* the override of stream s is among the overrides the registry holds
InEffect(reg, s) == \E i \in DOMAIN reg : reg[i] = s

\* the first next(): the field check passes, the handler context is entered
\* and the generator runs to its first yield
StreamStart(s) ==
    /\ streams[s].st = "created"
    /\ registry' = HandlerPush(registry, s)
    /\ streams' = [streams EXCEPT ![s] =
                      [st |-> "suspended", docs |-> 1, own |-> InEffect(registry', s)]]
    /\ UNCHANGED <<call, gpc, consumer, hIdx, esIdx, sourced, emitted, yielded,
                   filledIds, trace, gerr, searchVars, fillVars, viewVars,
                   tableVars, facadeVars, exportVars>>

\* a later next(): the generator resumes inside the with block, takes the
\* next document of its source, fills it and yields it
StreamAdvance(s) ==
    /\ streams[s].st = "suspended"
    /\ streams[s].docs < MaxYields
    /\ streams' = [streams EXCEPT ![s].docs = @ + 1,
                                  ![s].own = @ /\ InEffect(registry, s)]
    /\ UNCHANGED <<call, gpc, consumer, hIdx, esIdx, sourced, emitted, yielded,
                   filledIds, registry, trace, gerr, searchVars, fillVars,
                   viewVars, tableVars, facadeVars, exportVars>>

\* the next() that finds the sources exhausted: the with block is left
StreamExhaust(s) ==
    /\ streams[s].st = "suspended"
    /\ registry' = HandlerPop(registry)
    /\ streams' = [streams EXCEPT ![s].st = "finished"]
    /\ UNCHANGED <<call, gpc, consumer, hIdx, esIdx, sourced, emitted, yielded,
                   filledIds, trace, gerr, searchVars, fillVars, viewVars,
                   tableVars, facadeVars, exportVars>>

\* close() of a suspended generator: GeneratorExit at the yield leaves the
\* with block
StreamClose(s) ==
    /\ streams[s].st = "suspended"
    /\ registry' = HandlerPop(registry)
    /\ streams' = [streams EXCEPT ![s].st = "closed"]
    /\ UNCHANGED <<call, gpc, consumer, hIdx, esIdx, sourced, emitted, yielded,
                   filledIds, trace, gerr, searchVars, fillVars, viewVars,
                   tableVars, facadeVars, exportVars>>

StreamsNext ==
    \/ \E s \in StreamIds : StreamStart(s)
    \/ \E s \in StreamIds : StreamAdvance(s)
    \/ \E s \in StreamIds : StreamExhaust(s)
    \/ \E s \in StreamIds : StreamClose(s)

\* ---------------------------------------------------------- initial states
\* BrokerES.__init__: an empty store, no call of any kind in progress
SearchInit ==
    /\ runs = <<>>
    /\ open = FALSE
    /\ key = NoKey
    /\ result = NoResult
    /\ descriptors = <<>>
    /\ fields = SelFalse
    /\ inplace = TRUE
    /\ cpc = "idle"
    /\ heap = <<>>
    /\ pushed = <<>>
    /\ retrieved = <<>>
    /\ reads = <<>>
    /\ call = <<>>
    /\ gpc = "idle"
    /\ consumer = "idle"
    /\ hIdx = 0
    /\ esIdx = 0
    /\ sourced = <<>>
    /\ emitted = <<>>
    /\ yielded = <<>>
    /\ filledIds = <<>>
    /\ registry = <<>>
    /\ trace = <<>>
    /\ gerr = "none"
    /\ source = <<>>
    /\ teeBuf = <<>>
    /\ dataKey = None
    /\ iters = <<>>
    /\ tcall = <<>>
    /\ tpc = "idle"
    /\ tpos = <<0, 0>>
    /\ dfs = <<>>
    /\ tRetrieved = <<>>
    /\ tReg = <<>>
    /\ filters = <<>>
    /\ aliases = <<>>
    /\ last = NoCall
    /\ xcall = <<>>
    /\ xpos = NoExport
    /\ events = <<>>
    /\ dest = <<>>
    /\ streams = <<>>

\* a fill_events(events, descriptors, fields, inplace) call, not yet iterated
FillInit ==
    /\ descriptors \in DescSeqs
    /\ fields \in Selectors
    /\ inplace \in BOOLEAN
    /\ cpc = "created"
    /\ heap = <<>>
    /\ pushed = <<>>
    /\ retrieved = <<>>
    /\ reads = <<>>
    /\ runs = <<>>
    /\ open = FALSE
    /\ key = NoKey
    /\ result = NoResult
    /\ call = <<>>
    /\ gpc = "idle"
    /\ consumer = "idle"
    /\ hIdx = 0
    /\ esIdx = 0
    /\ sourced = <<>>
    /\ emitted = <<>>
    /\ yielded = <<>>
    /\ filledIds = <<>>
    /\ registry = <<>>
    /\ trace = <<>>
    /\ gerr = "none"
    /\ source = <<>>
    /\ teeBuf = <<>>
    /\ dataKey = None
    /\ iters = <<>>
    /\ tcall = <<>>
    /\ tpc = "idle"
    /\ tpos = <<0, 0>>
    /\ dfs = <<>>
    /\ tRetrieved = <<>>
    /\ tReg = <<>>
    /\ filters = <<>>
    /\ aliases = <<>>
    /\ last = NoCall
    /\ xcall = <<>>
    /\ xpos = NoExport
    /\ events = <<>>
    /\ dest = <<>>
    /\ streams = <<>>

\* a get_documents / get_events call, not yet iterated
DocInit ==
    /\ call \in [api : Apis, headers : HeaderSeqs, fields : Whitelists,
                 fill : FillSelectors]
    /\ gpc = "created"
    /\ consumer = "iterating"
    /\ hIdx = 0
    /\ esIdx = 0
    /\ sourced = <<>>
    /\ emitted = <<>>
    /\ yielded = <<>>
    /\ filledIds = <<>>
    /\ registry = <<>>
    /\ trace = <<>>
    /\ gerr = "none"
    /\ runs = <<>>
    /\ open = FALSE
    /\ key = NoKey
    /\ result = NoResult
    /\ descriptors = <<>>
    /\ fields = SelFalse
    /\ inplace = TRUE
    /\ cpc = "idle"
    /\ heap = <<>>
    /\ pushed = <<>>
    /\ retrieved = <<>>
    /\ reads = <<>>
    /\ source = <<>>
    /\ teeBuf = <<>>
    /\ dataKey = None
    /\ iters = <<>>
    /\ tcall = <<>>
    /\ tpc = "idle"
    /\ tpos = <<0, 0>>
    /\ dfs = <<>>
    /\ tRetrieved = <<>>
    /\ tReg = <<>>
    /\ filters = <<>>
    /\ aliases = <<>>
    /\ last = NoCall
    /\ xcall = <<>>
    /\ xpos = NoExport
    /\ events = <<>>
    /\ dest = <<>>
    /\ streams = <<>>


\* db(data_key=..., **query): Results(res, self, data_key), not yet iterated
ViewInit ==
    /\ source \in SourceSeqs
    /\ teeBuf = <<>>
    /\ dataKey \in DataKeys
    /\ iters = <<>>
    /\ runs = <<>>
    /\ open = FALSE
    /\ key = NoKey
    /\ result = NoResult
    /\ descriptors = <<>>
    /\ fields = SelFalse
    /\ inplace = TRUE
    /\ cpc = "idle"
    /\ heap = <<>>
    /\ pushed = <<>>
    /\ retrieved = <<>>
    /\ reads = <<>>
    /\ call = <<>>
    /\ gpc = "idle"
    /\ consumer = "idle"
    /\ hIdx = 0
    /\ esIdx = 0
    /\ sourced = <<>>
    /\ emitted = <<>>
    /\ yielded = <<>>
    /\ filledIds = <<>>
    /\ registry = <<>>
    /\ trace = <<>>
    /\ gerr = "none"
    /\ tcall = <<>>
    /\ tpc = "idle"
    /\ tpos = <<0, 0>>
    /\ dfs = <<>>
    /\ tRetrieved = <<>>
    /\ tReg = <<>>
    /\ filters = <<>>
    /\ aliases = <<>>
    /\ last = NoCall
    /\ xcall = <<>>
    /\ xpos = NoExport
    /\ events = <<>>
    /\ dest = <<>>
    /\ streams = <<>>


\* a get_table(headers, fields=..., fill=..., handler_registry=...) call
TableInit ==
    /\ tcall \in [headers : TableHeaderSeqs, fields : Whitelists, fill : TableFills]
    /\ tpc = "created"
    /\ tpos = <<0, 0>>
    /\ dfs = <<>>
    /\ tRetrieved = <<>>
    /\ tReg = <<>>
    /\ filters = <<>>
    /\ aliases = <<>>
    /\ last = NoCall
    /\ xcall = <<>>
    /\ xpos = NoExport
    /\ events = <<>>
    /\ dest = <<>>
    /\ streams = <<>>
    /\ runs = <<>>
    /\ open = FALSE
    /\ key = NoKey
    /\ result = NoResult
    /\ descriptors = <<>>
    /\ fields = SelFalse
    /\ inplace = TRUE
    /\ cpc = "idle"
    /\ heap = <<>>
    /\ pushed = <<>>
    /\ retrieved = <<>>
    /\ reads = <<>>
    /\ call = <<>>
    /\ gpc = "idle"
    /\ consumer = "idle"
    /\ hIdx = 0
    /\ esIdx = 0
    /\ sourced = <<>>
    /\ emitted = <<>>
    /\ yielded = <<>>
    /\ filledIds = <<>>
    /\ registry = <<>>
    /\ trace = <<>>
    /\ gerr = "none"
    /\ source = <<>>
    /\ teeBuf = <<>>
    /\ dataKey = None
    /\ iters = <<>>

\* BrokerES.__init__: self.filters = [], self.aliases = {}
FacadeInit ==
    /\ runs = <<>>
    /\ open = FALSE
    /\ key = NoKey
    /\ result = NoResult
    /\ descriptors = <<>>
    /\ fields = SelFalse
    /\ inplace = TRUE
    /\ cpc = "idle"
    /\ heap = <<>>
    /\ pushed = <<>>
    /\ retrieved = <<>>
    /\ reads = <<>>
    /\ call = <<>>
    /\ gpc = "idle"
    /\ consumer = "idle"
    /\ hIdx = 0
    /\ esIdx = 0
    /\ sourced = <<>>
    /\ emitted = <<>>
    /\ yielded = <<>>
    /\ filledIds = <<>>
    /\ registry = <<>>
    /\ trace = <<>>
    /\ gerr = "none"
    /\ source = <<>>
    /\ teeBuf = <<>>
    /\ dataKey = None
    /\ iters = <<>>
    /\ tcall = <<>>
    /\ tpc = "idle"
    /\ tpos = <<0, 0>>
    /\ dfs = <<>>
    /\ tRetrieved = <<>>
    /\ tReg = <<>>
    /\ filters = <<>>
    /\ aliases = [k \in AliasNames |-> None]
    /\ last = NoCall
    /\ xcall = <<>>
    /\ xpos = NoExport
    /\ events = <<>>
    /\ dest = <<>>
    /\ streams = <<>>

\* an export(headers, db) call into an empty destination
ExportInit ==
    /\ runs = <<>>
    /\ open = FALSE
    /\ key = NoKey
    /\ result = NoResult
    /\ descriptors = <<>>
    /\ fields = SelFalse
    /\ inplace = TRUE
    /\ cpc = "idle"
    /\ heap = <<>>
    /\ pushed = <<>>
    /\ retrieved = <<>>
    /\ reads = <<>>
    /\ call = <<>>
    /\ gpc = "idle"
    /\ consumer = "idle"
    /\ hIdx = 0
    /\ esIdx = 0
    /\ sourced = <<>>
    /\ emitted = <<>>
    /\ yielded = <<>>
    /\ filledIds = <<>>
    /\ registry = <<>>
    /\ trace = <<>>
    /\ gerr = "none"
    /\ source = <<>>
    /\ teeBuf = <<>>
    /\ dataKey = None
    /\ iters = <<>>
    /\ tcall = <<>>
    /\ tpc = "idle"
    /\ tpos = <<0, 0>>
    /\ dfs = <<>>
    /\ tRetrieved = <<>>
    /\ tReg = <<>>
    /\ filters = <<>>
    /\ aliases = <<>>
    /\ last = NoCall
    /\ xcall \in ExportHeaderSeqs
    /\ xpos = [h |-> 0, phase |-> "next", d |-> 0, todo |-> {}]
    /\ events = <<>>
    /\ dest = <<>>
    /\ streams = <<>>

\* two get_documents calls made, neither generator advanced yet
StreamsInit ==
    /\ runs = <<>>
    /\ open = FALSE
    /\ key = NoKey
    /\ result = NoResult
    /\ descriptors = <<>>
    /\ fields = SelFalse
    /\ inplace = TRUE
    /\ cpc = "idle"
    /\ heap = <<>>
    /\ pushed = <<>>
    /\ retrieved = <<>>
    /\ reads = <<>>
    /\ call = <<>>
    /\ gpc = "idle"
    /\ consumer = "idle"
    /\ hIdx = 0
    /\ esIdx = 0
    /\ sourced = <<>>
    /\ emitted = <<>>
    /\ yielded = <<>>
    /\ filledIds = <<>>
    /\ registry = <<>>
    /\ trace = <<>>
    /\ gerr = "none"
    /\ source = <<>>
    /\ teeBuf = <<>>
    /\ dataKey = None
    /\ iters = <<>>
    /\ tcall = <<>>
    /\ tpc = "idle"
    /\ tpos = <<0, 0>>
    /\ dfs = <<>>
    /\ tRetrieved = <<>>
    /\ tReg = <<>>
    /\ filters = <<>>
    /\ aliases = <<>>
    /\ last = NoCall
    /\ xcall = <<>>
    /\ xpos = NoExport
    /\ events = <<>>
    /\ dest = <<>>
    /\ streams = [s \in StreamIds |-> NewStream]

\* ------------------------------------------------------- specifications
SpecSearch == SearchInit /\ [][SearchNext]_vars

SpecKeys == SearchInit /\ [][KeysNext]_vars

SpecFill == FillInit /\ [][FillNext]_vars

SpecDocs == DocInit /\ [][DocNext]_vars

SpecView == ViewInit /\ [][ViewStep]_vars

SpecTable == TableInit /\ [][TableNext]_vars

SpecFilters == FacadeInit /\ [][FiltersNext]_vars

SpecFacade == FacadeInit /\ [][FacadeNext]_vars

SpecAliases == FacadeInit /\ [][AliasNext]_vars

SpecExport == ExportInit /\ [][ExportNext]_vars

SpecStreams == StreamsInit /\ [][StreamsNext]_vars

\* ================================================================= claims

\* ---- helpers of the claims
KeysRetrievedFor(oid) == {retrieved[j][2] : j \in {j \in DOMAIN retrieved : retrieved[j][1] = oid}}
TimesRetrieved(oid, k) ==
    Cardinality({j \in DOMAIN retrieved : retrieved[j][1] = oid /\ retrieved[j][2] = k})
KeysReadFor(oid) == {reads[j][2] : j \in {j \in DOMAIN reads : reads[j][1] = oid}}
KeysReplaced(p) == {k \in DOMAIN p.before.data : heap[p.obj].data[k] # p.before.data[k]}
Selected(d) == IF fields.kind = "True" THEN d.ext
               ELSE IF fields.kind = "set" THEN d.ext \cap fields.keys
               ELSE {}

\* C1: for every event pushed with a selector other than False, the fill does
\* not fail, the keys replaced by retrieve(reference id) are exactly the
\* event's own descriptor's external keys cut to the selector, each retrieved
\* exactly once, no other key is read, and with fields=True no external key
\* still holds its reference id.
C1_FillsOwnExternalKeysOnly ==
    \A i \in DOMAIN pushed :
        LET p == pushed[i]
            d == descriptors[p.before.descriptor]
        IN  fields.kind # "False" =>
              /\ p.err = "none"
              /\ KeysReplaced(p) = Selected(d)
              /\ KeysRetrievedFor(p.in) = Selected(d)
              /\ \A k \in Selected(d) : TimesRetrieved(p.in, k) = 1
              /\ KeysReadFor(p.in) \subseteq Selected(d)
              /\ fields.kind = "True" =>
                    \A k \in d.ext : ~IsRef(heap[p.obj].data[k])

\* C2: for every event and every key the fill has written, filled[key] is the
\* reference id data[key] held before the fill started.
C2_FilledHoldsOriginalReference ==
    \A i \in DOMAIN pushed :
        LET p == pushed[i]
        IN  \A k \in KeysReplaced(p) :
               /\ k \in DOMAIN heap[p.obj].filled
               /\ heap[p.obj].filled[k] = p.before.data[k]

\* C3: with the selector False every event pushed comes back as the same
\* object with data, timestamps and filled as they were, in the order pushed,
\* retrieve is never called, no key is read and the coroutine never fails,
\* whatever the descriptors and inplace are.
C3_FalseIsPassThrough ==
    fields.kind = "False" =>
        /\ retrieved = <<>>
        /\ reads = <<>>
        /\ cpc # "failed"
        /\ Len(heap) = Len(pushed)
        /\ \A i \in DOMAIN pushed :
              /\ pushed[i].err = "none"
              /\ pushed[i].in = i
              /\ pushed[i].out = pushed[i].in
              /\ heap[pushed[i].out] = pushed[i].before

C3_Witness ==
    /\ fields.kind = "False"
    /\ ~inplace
    /\ Len(pushed) >= 2
    /\ \E i \in DOMAIN pushed : descriptors[pushed[i].before.descriptor].ext # {}
    /\ Len(descriptors) >= 2

C5_OverrideReleasedWhenCallEnds ==
    consumer \in {"done", "stopped"} => registry = <<>>

\* C6: a call whose whitelist names a key that no descriptor of its headers
\* has ends its first next() with FieldNotFound, having only run the check:
\* no override pushed, no fill coroutine created, no source asked, nothing
\* emitted.
MissingField ==
    /\ ~IsNone(call.fields)
    /\ \E f \in Val(call.fields) :
          \A h \in DOMAIN call.headers : \A i \in DOMAIN call.headers[h] :
              f \notin call.headers[h][i].keys

C6_FieldNotFoundBeforeAnything ==
    MissingField =>
        /\ \/ gpc \in {"created", "closed"} /\ trace = <<>> /\ gerr = "none"
           \/ gpc = "raised" /\ trace = <<"check">> /\ gerr = "FieldNotFound"
        /\ registry = <<>>
        /\ sourced = <<>>
        /\ emitted = <<>>
        /\ yielded = <<>>
        /\ filledIds = <<>>

C6_Witness ==
    /\ MissingField
    /\ gerr = "FieldNotFound"
    /\ Len(call.headers) >= 2
    /\ call.fill.kind = "True"

\* C7: what get_documents emits is the concatenation, headers in the order
\* given, sources in registration order, of what each source yielded for that
\* header; only events go through the fill coroutine; get_events hands on
\* exactly the events, in the same order.
Expected ==
    Flatten([h \in 1 .. Len(call.headers) |->
        Flatten([es \in 1 .. Len(EventSources) |->
            SelectSeq(sourced, LAMBDA d : d.h = h /\ d.es = es)])])
IsPrefix(a, b) == Len(a) <= Len(b) /\ SubSeq(b, 1, Len(a)) = a
IdsOf(ds) == [i \in DOMAIN ds |-> ds[i].id]

C7_EmitsSourcesInOrder ==
    /\ IsPrefix(emitted, Expected)
    /\ gerr \in {"none", "SourceError", "FieldNotFound"} => emitted = Expected
    /\ Len(emitted) >= Len(Expected) - 1
    /\ filledIds = IdsOf(SelectSeq(sourced, LAMBDA d : d.name = "event"))
    /\ yielded = IF call.api = "get_events"
                 THEN SelectSeq(emitted, LAMBDA d : d.name = "event")
                 ELSE emitted

C7_Witness ==
    /\ gpc = "exhausted"
    /\ Len(emitted) >= 2
    /\ emitted[1].h = 2
    /\ emitted[1].es # emitted[2].es
    /\ emitted[1].name # emitted[2].name
    /\ call.api = "get_events"

\* C8: an integer key n > -1 resolves to exactly one pair whose start is the
\* most recently inserted run with scan_id n; with no such run it fails with
\* NotFoundError and returns nothing.
C8_ScanIdMostRecent ==
    (key.type = "int" /\ key.n > -1) =>
        LET m == {i \in DOMAIN runs : runs[i].scan_id = key.n}
        IN  IF m = {}
            THEN result.kind = "NotFoundError" /\ result.pairs = <<>>
            ELSE /\ result.kind = "ok"
                 /\ Len(result.pairs) = 1
                 /\ result.pairs[1].start = runs[CHOOSE i \in m : \A j \in m : j <= i]

C8_Witness ==
    /\ key.type = "int"
    /\ key.n > -1
    /\ result.kind = "ok"
    /\ Cardinality({i \in DOMAIN runs : runs[i].scan_id = key.n}) >= 2
    /\ runs[Len(runs)].scan_id # key.n

\* C9: an integer key n <= -1 resolves to the (-n)-th most recent run when at
\* least -n runs exist, and fails with IndexOutOfRange, returning no run,
\* otherwise.
C9_NthMostRecent ==
    (key.type = "int" /\ key.n <= -1) =>
        IF Len(runs) >= -key.n
        THEN /\ result.kind = "ok"
             /\ Len(result.pairs) = 1
             /\ result.pairs[1].start = runs[Len(runs) + 1 + key.n]
        ELSE result.kind = "IndexOutOfRange" /\ result.pairs = <<>>

C9_Witness ==
    /\ key.type = "int"
    /\ key.n = -2
    /\ Len(runs) >= 3
    /\ result.kind = "ok"

\* C10 as stated: a slice key is rejected with InvalidRange before the store
\* is queried when start is None or > -1 or stop > 0; every other slice key
\* is accepted and never fails.
Rejected(k) ==
    \/ IsNone(k.start)
    \/ Val(k.start) > -1
    \/ (~IsNone(k.stop) /\ Val(k.stop) > 0)

C10_Original ==
    key.type = "slice" =>
        IF Rejected(key)
        THEN result.kind = "InvalidRange" /\ result.calls = <<>>
        ELSE result.kind = "ok"

\* C10 amended: as stated, except that an accepted slice never fails only
\* when its step is missing or not 0; with step 0 it fails with ValueError
\* after the store has been queried.
C10_SliceBounds ==
    key.type = "slice" =>
        IF Rejected(key)
        THEN result.kind = "InvalidRange" /\ result.calls = <<>> /\ result.pairs = <<>>
        ELSE IF ~IsNone(key.step) /\ Val(key.step) = 0
        THEN result.kind = "ValueError" /\ result.calls # <<>> /\ result.pairs = <<>>
        ELSE result.kind = "ok"

C10_Witness ==
    /\ key.type = "slice"
    /\ ~Rejected(key)
    /\ Len(runs) >= 1
    /\ Len(runs) < -Val(key.start)
    /\ result.kind = "ok"
    /\ Len(result.pairs) = Len(runs)

\* ---- helpers of the slice claims
\* the run ranked r-th most recent (1 = the most recent)
Ranked(r) == runs[Len(runs) + 1 - r]
\* the rank of the i-th run returned
RankOfResult(i) == Len(runs) + 1 - (CHOOSE j \in DOMAIN runs : runs[j] = result.pairs[i].start)
ResultRanks == {RankOfResult(i) : i \in DOMAIN result.pairs}
PlainSlice(k) == k.type = "slice" /\ ~Rejected(k) /\ (IsNone(k.step) \/ Val(k.step) # 0)

\* C11: a slice key [a:b] with a < b < 0 and no step, on a history of at
\* least -a runs, returns exactly b - a runs: those ranked (-b + 1)-th to
\* (-a)-th most recent, most recent first, none of the -b most recent runs
\* among them.
C11_NegativeStopWindow ==
    (/\ key.type = "slice"
     /\ ~IsNone(key.start) /\ ~IsNone(key.stop) /\ IsNone(key.step)
     /\ Val(key.start) < Val(key.stop) /\ Val(key.stop) < 0
     /\ Len(runs) >= -Val(key.start)) =>
        LET a == Val(key.start)
            b == Val(key.stop)
        IN  /\ result.kind = "ok"
            /\ Len(result.pairs) = b - a
            /\ \A i \in 1 .. (b - a) : result.pairs[i].start = Ranked(-b + i)
            /\ \A r \in 1 .. (-b) : \A i \in DOMAIN result.pairs :
                   result.pairs[i].start # Ranked(r)

C11_Witness ==
    /\ key.type = "slice"
    /\ key.start = Some(-4) /\ key.stop = Some(-2) /\ IsNone(key.step)
    /\ Len(runs) >= 4
    /\ Len(result.pairs) = 2
    /\ open

\* the 0-based indices Python's L[a:b:c] selects from a list of n elements
\* (a, b, c optional, c not 0)
PySliceIndices(n, a, b, c) ==
    LET st == IF IsNone(c) THEN 1 ELSE Val(c)
        ClampUp(x)   == IF x < 0 THEN Max(x + n, 0) ELSE Min(x, n)
        ClampDown(x) == IF x < 0 THEN Max(x + n, -1) ELSE Min(x, n - 1)
    IN  IF st > 0
        THEN LET lo == IF IsNone(a) THEN 0 ELSE ClampUp(Val(a))
                 hi == IF IsNone(b) THEN n ELSE ClampUp(Val(b))
             IN  {i \in 0 .. (n - 1) : i >= lo /\ i < hi /\ (i - lo) % st = 0}
        ELSE LET lo == IF IsNone(a) THEN n - 1 ELSE ClampDown(Val(a))
                 hi == IF IsNone(b) THEN -1 ELSE ClampDown(Val(b))
             IN  {i \in 0 .. (n - 1) : i <= lo /\ i > hi /\ (lo - i) % (-st) = 0}

\* C12 as stated: for every accepted slice key [a:b:c] the runs returned are
\* exactly those Python's H[a:b:c] selects from the history H ordered
\* oldest-first, and they are listed most-recent-first.
C12_Original ==
    PlainSlice(key) =>
        /\ result.kind = "ok"
        /\ {result.pairs[i].start : i \in DOMAIN result.pairs} =
              {runs[j + 1] : j \in PySliceIndices(Len(runs), key.start, key.stop, key.step)}
        /\ \A i \in DOMAIN result.pairs : \A j \in DOMAIN result.pairs :
              i < j => RankOfResult(i) < RankOfResult(j)

\* C12 amended: for every accepted slice key [a:b:c] with c missing or not 0
\* the runs returned are those Python's W[-b::c] (W[::c] when b is missing)
\* selects from the window W of the min(-a, |H|) most recent runs listed
\* most-recent-first, in the order that slicing lists them: most-recent-first
\* when c is missing or positive, oldest-first when c is negative. They are
\* the runs H[a:b:c] selects when c is missing or 1 and b is missing or
\* negative.
C12_SliceOfRecentWindow ==
    PlainSlice(key) =>
        LET m  == Min(-Val(key.start), Len(runs))
            st == IF IsNone(key.step) THEN 1 ELSE Val(key.step)
            nb == IF IsNone(key.stop) THEN None ELSE Some(-Val(key.stop))
        IN  /\ result.kind = "ok"
            /\ \A i \in DOMAIN result.pairs : \E j \in DOMAIN runs :
                   runs[j] = result.pairs[i].start
            /\ ResultRanks = {j + 1 : j \in PySliceIndices(m, nb, None, key.step)}
            /\ Len(result.pairs) = Cardinality(ResultRanks)
            /\ \A i \in DOMAIN result.pairs : \A j \in DOMAIN result.pairs :
                   i < j => IF st > 0 THEN RankOfResult(i) < RankOfResult(j)
                            ELSE RankOfResult(i) > RankOfResult(j)
            /\ (st = 1 /\ key.stop # Some(0)) =>
                   {result.pairs[i].start : i \in DOMAIN result.pairs} =
                     {runs[j + 1] : j \in PySliceIndices(Len(runs), key.start,
                                                         key.stop, key.step)}

C12_Witness ==
    /\ key.type = "slice"
    /\ key.start = Some(-4) /\ key.stop = Some(-1) /\ key.step = Some(2)
    /\ Len(runs) = 4
    /\ Len(result.pairs) = 2
    /\ result.pairs[1].start = runs[3]
    /\ result.pairs[2].start = runs[1]

\* C13: for every n <= -1 and every history of at least -n runs, db[n] is
\* the run (same uid) at index -n - 1 of the list db[n:].
C13_IntAgreesWithSlice ==
    (key.type = "int" /\ key.n <= -1 /\ Len(runs) >= -key.n) =>
        LET sl == SearchSlice([type |-> "slice", start |-> Some(key.n),
                               stop |-> None, step |-> None], runs, open)
        IN  /\ result.kind = "ok"
            /\ sl.kind = "ok"
            /\ Len(sl.pairs) >= -key.n
            /\ Len(result.pairs) = 1
            /\ result.pairs[1].start.uid = sl.pairs[-key.n].start.uid

C13_Witness ==
    /\ key.type = "int"
    /\ key.n = -3
    /\ Len(runs) = 4
    /\ result.kind = "ok"
    /\ result.pairs[1].start = runs[2]

\* ---- helpers of the string and collection claims
UidMatches(u) == {i \in DOMAIN runs : runs[i].uid = u}
PrefixMatches(u) == {i \in DOMAIN runs : StartsWith(runs[i].uid, u)}
UidLookup(u) == <<"find_run_starts_uid", u>>
PartialLookup(u) == <<"find_run_starts_regex", u>>
\* the uid holds u somewhere after its first character
HoldsInside(uid, u) ==
    \E i \in 2 .. (Len(uid) - Len(u) + 1) : SubSeq(uid, i, i + Len(u) - 1) = u

RECURSIVE Leaves(_)
Leaves(k) ==
    IF k.type \in CollectionTypes
    THEN Flatten([i \in DOMAIN k.elems |-> Leaves(k.elems[i])])
    ELSE <<k>>
FailedLeaves(ls) == {i \in DOMAIN ls : Search(ls[i], runs, open).kind # "ok"}

\* C16: a tuple or list key resolves to the concatenation, in element order,
\* of what its elements resolve to, nested collections flattened and repeated
\* keys giving repeated runs; if an element fails the whole key fails with
\* the error of the first such element and returns nothing; the empty
\* collection resolves to the empty list.
C16_CollectionConcatenates ==
    key.type \in {"tuple", "list"} =>
        LET ls == Leaves(key)
            f  == FailedLeaves(ls)
        IN  /\ f = {} =>
                  /\ result.kind = "ok"
                  /\ result.pairs =
                        Flatten([i \in DOMAIN ls |-> Search(ls[i], runs, open).pairs])
            /\ f # {} =>
                  /\ result.kind =
                        Search(ls[CHOOSE i \in f : \A j \in f : i <= j], runs, open).kind
                  /\ result.pairs = <<>>
                  /\ result.form = "raised"
            /\ key.elems = <<>> =>
                  result.kind = "ok" /\ result.pairs = <<>> /\ result.form = "list"

C16_Witness ==
    /\ key = CollKey("list", <<CollKey("tuple", <<IntKey(-1), StrKey(<<"b">>)>>),
                              IntKey(-1)>>)
    /\ result.kind = "ok"
    /\ Len(result.pairs) = 3
    /\ result.pairs[1] = result.pairs[3]
    /\ result.pairs[1] # result.pairs[2]

\* C17: db[key] returns a bare Header exactly when the key is an integer or
\* a string, whose resolution always has exactly one element, and a list for
\* every set, tuple, list or slice key, also when the list has one element
\* or none.
C17_SqueezeByKeyType ==
    (key # NoKey /\ result.kind = "ok") =>
        /\ result.form = "header" <=> key.type \in {"int", "str"}
        /\ key.type \in {"int", "str"} => Len(result.ret) = 1
        /\ key.type \in (CollectionTypes \cup {"slice"}) =>
              result.form = "list" /\ Len(result.ret) = Len(result.pairs)

C17_Witness ==
    /\ key.type = "set"
    /\ result.kind = "ok"
    /\ result.form = "list"
    /\ Len(result.ret) = 1

\* ---- helpers of the view claims
\* everything the search behind the view gives, in its order
AllResults == teeBuf \o source
Complete == {i \in DOMAIN iters : iters[i].st = "done"}
HasDataKey(item) == \E i \in DOMAIN item.descs : Val(dataKey) \in item.descs[i]
UidsOf(items) == [i \in DOMAIN items |-> items[i].uid]

\* C18: whatever iterations were completed, abandoned part-way or started
\* while another was in progress, every iteration that ran to its end has
\* yielded the same Headers, in the same order, as every other one, the
\* source being a one-shot iterator.
C18_EveryIterationYieldsTheSame ==
    \A i \in Complete : \A j \in Complete : iters[i].out = iters[j].out

C18_Witness ==
    /\ Len(iters) = 3
    /\ iters[1].st = "abandoned" /\ Len(iters[1].out) = 1
    /\ iters[2].st = "done"
    /\ iters[3].st = "done" /\ iters[3].amid
    /\ Len(iters[2].out) = 2
    /\ source = <<>>

\* C19: a view with a data_key yields a Header if and only if one of the
\* run's descriptors has the data_key among its data_keys, each such Header
\* once, in the order of the underlying sequence; with data_key None it
\* yields every Header.
C19_DataKeyFilter ==
    \A i \in DOMAIN iters :
        LET want == IF IsNone(dataKey) THEN UidsOf(AllResults)
                    ELSE UidsOf(SelectSeq(AllResults, HasDataKey))
        IN  /\ IsPrefix(iters[i].out, want)
            /\ iters[i].st = "done" => iters[i].out = want

C19_Witness ==
    /\ dataKey = Some("a")
    /\ \E i \in DOMAIN iters :
          /\ iters[i].st = "done"
          /\ iters[i].out = <<2>>
    /\ Len(AllResults) = 2
    /\ Len(AllResults[2].descs) = 2
    /\ \A d \in DOMAIN AllResults[2].descs : "a" \in AllResults[2].descs[d]

\* ---- helpers of the table claim
\* the external keys of d the fill argument of the call selects
SelectedByFill(d) ==
    IF tcall.fill.kind = "True" THEN d.ext
    ELSE IF tcall.fill.kind = "set" THEN d.ext \cap tcall.fill.keys
    ELSE {}
StreamDescOf(h) == tcall.headers[h][StreamDescriptor(tcall.headers[h])]
\* the table as the event source gave it
Unfilled(t) == TableGivenHeader(t.h, t.es, StreamDescOf(t.h), t.rows, tcall.fields)

\* C20: get_table fills exactly the columns its fill argument selects among
\* the stream descriptor's external keys: with fill=False every external
\* column holds the stored reference ids and retrieve is never called; with
\* fill=True or a set the selected columns hold, row by row, the payloads
\* retrieve returns for the reference ids, and the others the reference ids.
C20_TableFillsSelectedColumns ==
    /\ tcall.fill.kind = "False" => tRetrieved = <<>>
    /\ \A j \in DOMAIN tRetrieved :
          \E h \in DOMAIN tcall.headers :
              /\ StreamDescriptor(tcall.headers[h]) # 0
              /\ tRetrieved[j][1] \in SelectedByFill(StreamDescOf(h))
    /\ \A t \in DOMAIN dfs :
          LET tb == dfs[t]
              d  == StreamDescOf(tb.h)
              u  == Unfilled(tb)
          IN  \A k \in DOMAIN tb.cols : \A i \in 1 .. tb.rows :
                 tb.cols[k][i] = IF k \in SelectedByFill(d)
                                 THEN Payload(u.cols[k][i])
                                 ELSE u.cols[k][i]

\* ---- helpers of the claims on filters and aliases
Overlaps(fl, kw) == \E i \in DOMAIN fl : \E k \in kw : k \in fl[i]
PairwiseDisjoint(fl) ==
    \A i, j \in DOMAIN fl : i # j => fl[i] \cap fl[j] = {}

C22_RegisteringAnAliasRunsNothing ==
    /\ last.op \in {"alias", "dynamic_alias"} =>
          IF last.key \in RealAttrs
          THEN /\ last.err = "IllegalAliasName"
               /\ aliases = last.aBefore
               /\ last.evals = <<>>
               /\ last.handed = <<>>
          ELSE /\ last.err = "none"
               /\ aliases = [last.aBefore EXCEPT ![last.key] = last.val]
               /\ last.evals = <<>>
               /\ last.handed = <<>>
    /\ last.op = "getattr" /\ last.err = "none" =>
          /\ Len(last.handed) = 1
          /\ last.evals = IF Val(aliases[last.key]).dyn
                          THEN <<Val(aliases[last.key]).id>> ELSE <<>>

Count(op, a) == Cardinality({i \in DOMAIN dest : dest[i].op = op /\ dest[i].a = a})
CountOp(op) == Cardinality({i \in DOMAIN dest : dest[i].op = op})
Exported == xpos.phase = "returned"

\* C23: when one run has been exported into an empty destination, the
\* destination holds one start, one stop, every descriptor of the run once
\* and every event of the run once, whatever its stream, and each event was
\* inserted after the descriptor it references.
C23_ExportRoundTrip ==
    Exported /\ Len(xcall) = 1 =>
        LET hd == xcall[1]
        IN  /\ CountOp("run_start") = 1
            /\ CountOp("run_stop") = 1
            /\ CountOp("descriptor") = Len(hd.descs)
            /\ CountOp("event") = Len(hd.evs)
            /\ \A d \in DOMAIN hd.descs : Count("descriptor", d) = 1
            /\ \A e \in DOMAIN hd.evs : Count("event", e) = 1
            /\ \A i \in DOMAIN dest : dest[i].op = "event" =>
                   \E j \in 1..(i - 1) :
                       dest[j].op = "descriptor" /\ dest[j].a = dest[i].b

\* C24: when an export call has returned, every resource the events of its
\* headers point into was copied once and inserted once as one new resource,
\* and each of its datums was inserted once, attached to that new resource,
\* also when several of the headers point into the same resource.
C24_ExportNeverDuplicatesAResource ==
    Exported =>
        \A uid \in UNION {GetResourceUids(xcall[n]) : n \in DOMAIN xcall} :
            /\ Count("copy_files", uid) = 1
            /\ Count("resource", uid) = 1
            /\ \A n \in 1..MaxDatums :
                   /\ Count("datum", <<uid, n>>) = 1
                   /\ \A i, j \in DOMAIN dest :
                          /\ dest[i].op = "datum" /\ dest[i].a = <<uid, n>>
                          /\ dest[j].op = "resource" /\ dest[j].a = uid
                          => dest[i].b = dest[j].b

\* C25: two document streams of one thread, each with its own override and
\* advanced in any order, leave the handler registry as it was before either
\* started once both have finished, and each stream has its own override in
\* effect whenever it is advanced.
C25_InterleavedStreamsKeepTheirOverrides ==
    /\ (\A s \in StreamIds : streams[s].st \in {"finished", "closed"})
          => registry = <<>>
    /\ \A s \in StreamIds : streams[s].own

====
